---- MODULE Spec2Model ----
(***************************************************************************)
(* Model of the rvp pipeline executor (rvp/core.py), its shared Context    *)
(* (rvp/context.py), the input validators (rvp/validators.py) and the      *)
(* external-tool helper (rvp/utils.py).                                    *)
(*                                                                         *)
(* One pipeline run is a state machine: run_pipeline is split at every     *)
(* point where it calls out to code it does not own (a hook handler, an    *)
(* engine), and an engine body is split at every Context/file-system       *)
(* operation it performs.                                                  *)
(***************************************************************************)
EXTENDS Integers, Sequences, FiniteSets, TLC

(* ------------------------------ bounds --------------------------------- *)

\* longest requested engine list
MaxEngines == 2
\* most plugin handlers returned by load_plugins()
MaxHandlers == 1
\* most Context / file-system / tool operations one engine body performs
MaxSteps == 2
\* most modules in the engines namespace, and in the plugins namespace
MaxModules == 2
\* most modules in a namespace whose discovery is followed module by module
MaxNamespace == 3
\* most smali files patch_ads finds in the decompiled tree
MaxSmali == 2
\* longest debloat / minify pattern list
MaxPatterns == 2
\* debloat / minify runs on one decompiled tree
MaxRuns == 2
\* longest rule list handed to _apply_patch_to_file
MaxRules == 2
\* threads calling into the module cache
MaxThreads == 2
\* calls of get_engines() / load_plugins() in one process
MaxCalls == 3

\* longest timeout a run_command call is given, and longest time its
\* subprocess runs
MaxTimeout == 2
MaxDuration == 3

\* most threads a patch_ads pool has
MaxWorkers == 2
\* engines run one after another on one Context
MaxInvocations == 2
\* files of a tree that cannot be deleted
MaxLocked == 1

(* ------------------------------ inputs --------------------------------- *)

\* keys of the engine registry returned by get_engines()
Registered == {"ok_engine", "failing_engine"}
\* names a caller may request
Names == Registered \cup {"unknown_engine_xyz"}

\* the input artifact and the artifact an engine may produce in output_dir
InputApk == "app.apk"
OutPaths == {"out/app.engine.apk"}
Paths == {InputApk} \cup OutPaths

\* what the input path is on disk
InputKinds == {"missing", "dir", "file"}
Suffixes == {".apk", ".APK", ".zip"}
Sizes == {0, 1}
\* what the output path is on disk
OutputKinds == {"missing", "dir", "file"}

\* behaviours of a plugin handler: example_plugin only logs, custom_plugin
\* also writes metadata, the other two raise
HandlerKinds == {"log", "custom", "ValueError", "KeyError"}

\* what an external tool does when run: it cannot be started, it outlives
\* the timeout, or it exits with a code
ToolRuns ==
  {[spawnFails |-> TRUE, timedOut |-> FALSE, code |-> 1],
   [spawnFails |-> FALSE, timedOut |-> TRUE, code |-> 1],
   [spawnFails |-> FALSE, timedOut |-> FALSE, code |-> 0],
   [spawnFails |-> FALSE, timedOut |-> FALSE, code |-> 1]}

\* exceptions an engine body raises itself
EngineRaises == {"ValueError", "RuntimeError", "FileNotFoundError"}

NoExc == "none"

(* ------------------------- exception hierarchy ------------------------- *)

\* direct base class of each exception type that occurs in the pipeline
ExcParent(e) ==
  CASE e = "FileNotFoundError" -> "OSError"
    [] e = "OSError" -> "Exception"
    [] e = "ValueError" -> "Exception"
    [] e = "RuntimeError" -> "Exception"
    [] e = "CalledProcessError" -> "SubprocessError"
    [] e = "TimeoutExpired" -> "SubprocessError"
    [] e = "SubprocessError" -> "Exception"
    [] e = "KeyError" -> "LookupError"
    [] e = "LookupError" -> "Exception"
    [] e = "ValidationError" -> "Exception"
    [] e = "ModuleNotFoundError" -> "ImportError"
    [] e = "ImportError" -> "Exception"
    [] e = "AttributeError" -> "Exception"
    [] e = "SyntaxError" -> "Exception"
    [] OTHER -> "BaseException"

RECURSIVE IsInstance(_, _)
\* isinstance(e, cls): what an `except cls` clause matches
IsInstance(e, cls) ==
  IF e = cls THEN TRUE
  ELSE IF e \in {"Exception", "BaseException"} THEN FALSE
  ELSE IsInstance(ExcParent(e), cls)

(* ------------------------------ validators ----------------------------- *)

\* str.lower() on the suffixes of the model
Lower(s) == CASE s = ".APK" -> ".apk" [] OTHER -> s

\* validate_apk_path without the emptiness check
validate_apk_path_NoSize(kind, suffix, size) ==
  IF kind = "missing" THEN "ValidationError"
  ELSE IF kind # "file" THEN "ValidationError"
  ELSE IF Lower(suffix) # ".apk" THEN "ValidationError"
  ELSE NoExc

\* validate_apk_path: the exception it raises, or NoExc
validate_apk_path(kind, suffix, size) ==
  IF kind = "missing" THEN "ValidationError"
  ELSE IF kind # "file" THEN "ValidationError"
  ELSE IF Lower(suffix) # ".apk" THEN "ValidationError"
  ELSE IF size = 0 THEN "ValidationError"
  ELSE NoExc

\* validate_output_dir: the exception it raises, or NoExc
validate_output_dir(okind) ==
  IF okind # "missing" /\ okind # "dir" THEN "ValidationError" ELSE NoExc

(* ------------------------------- Context ------------------------------- *)

\* set_current_apk without the existence check
set_current_apk_NoCheck(cur, p, files) ==
  [exc |-> NoExc, current |-> p]

\* set_current_apk assigning the pointer before the existence check
set_current_apk_AssignFirst(cur, p, files) ==
  IF p \notin files
    THEN [exc |-> "FileNotFoundError", current |-> p]
    ELSE [exc |-> NoExc, current |-> p]

\* Context.set_current_apk(p) on a Context whose pointer is cur, with the
\* files `files` on disk: the exception raised and the pointer afterwards
set_current_apk(cur, p, files) ==
  IF p \notin files
    THEN [exc |-> "FileNotFoundError", current |-> cur]
    ELSE [exc |-> NoExc, current |-> p]

\* require_input_apk(ctx): the path handed to the engine, or the exception
require_input_apk(cur, inp) ==
  LET apk == IF cur # "" THEN cur ELSE inp
  IN IF apk = "" THEN [exc |-> "ValueError", apk |-> ""]
     ELSE [exc |-> NoExc, apk |-> apk]

(* ------------------------------ run_command ---------------------------- *)

\* run_command(cmd, ctx, check, timeout): spawnFails = Popen raises OSError,
\* timedOut = the process outlives the timeout, code = its exit code.
\* The `with subprocess.Popen(...)` block ends in Popen.__exit__, which waits
\* for the process without a limit, so proc.wait(timeout=timeout) finds the
\* process gone and timedOut has no effect on what the call gives back.
run_command(check, spawnFails, timedOut, code) ==
  IF spawnFails
    THEN (IF check THEN [exc |-> "OSError", returncode |-> 1]
          ELSE [exc |-> NoExc, returncode |-> 1])
  ELSE IF check /\ code # 0 THEN [exc |-> "CalledProcessError", returncode |-> code]
  ELSE [exc |-> NoExc, returncode |-> code]

(* ------------------------------ run_pipeline --------------------------- *)

\* a stage label that leaves the engine name out
StageLabel_NoName(kind, name) == kind

\* the stage label passed to dispatch_hooks
StageLabel(kind, name) ==
  IF kind \in {"pre_pipeline", "post_pipeline"} THEN kind
  ELSE kind \o ":" \o name

\* a dispatch_hooks without the except clause
HookCatches_Never(e) == FALSE

\* the except clause of dispatch_hooks
HookCatches(e) ==
  IsInstance(e, "RuntimeError") \/ IsInstance(e, "ValueError") \/ IsInstance(e, "OSError")

\* the except clause around the engine call in run_pipeline
PipelineCatches(e) ==
  IsInstance(e, "OSError") \/ IsInstance(e, "ValueError") \/ IsInstance(e, "RuntimeError")

NoRaise == [type |-> NoExc, msg |-> "", cause |-> NoExc, origin |-> "none"]

\* the wrapped failure without the engine's name
EngineFailure_Unnamed(name, e) ==
  IF PipelineCatches(e)
    THEN [type |-> "RuntimeError", msg |-> "Engine failed",
          cause |-> e, origin |-> "engine"]
    ELSE [type |-> e, msg |-> "", cause |-> NoExc, origin |-> "engine"]

\* what run_pipeline raises when engine `name` raised `e`
EngineFailure(name, e) ==
  IF PipelineCatches(e)
    THEN [type |-> "RuntimeError", msg |-> "Engine " \o name \o " failed",
          cause |-> e, origin |-> "engine"]
    ELSE [type |-> e, msg |-> "", cause |-> NoExc, origin |-> "engine"]

\* what a handler of the given kind raises when invoked for a stage:
\* custom_plugin stats the current artifact at post_pipeline
HandlerRaises(kind, stageKind, apkExists) ==
  IF kind = "log" THEN NoExc
  ELSE IF kind = "custom"
    THEN (IF stageKind = "post_pipeline" /\ ~apkExists THEN "FileNotFoundError" ELSE NoExc)
  ELSE kind

\* the metadata keys a handler of the given kind writes when invoked
HandlerKeys(kind, stageKind, exc) ==
  IF kind = "custom"
    THEN (IF stageKind = "pre_pipeline" THEN {"custom_plugin"} ELSE {})
         \cup (IF exc = NoExc THEN {"plugin_hooks_called"} ELSE {})
    ELSE {}

\* a loop that never skips a name
IsKnown_Always(name, registry) == TRUE

\* membership test of the loop: `name not in all_engines`
IsKnown(name, registry) == name \in registry

\* a loop that steps over every other name
NextIndex_Skip(k) == k + 2

\* the for statement of the loop: the index of the next requested name
NextIndex(k) == k + 1

\* a run that does not store its metrics
StoreMetrics_Skip(meta) == meta

\* ctx.metadata["performance"] = {...}: the keys of the mapping afterwards
StoreMetrics(meta) == meta \cup {"performance"}

\* directories created by work_dir.mkdir(parents=True) and output_dir.mkdir
MkdirAll(okind) ==
  (IF okind = "missing" THEN {"out"} ELSE {}) \cup {"out/tmp"}

VARIABLES
  inputKind, inputSuffix, inputSize, \* the input path on disk
  outputKind,                        \* the output path on disk
  engines,                           \* requested engine names
  handlers,                          \* plugin handlers (their kinds)
  pc,                                \* position of run_pipeline
  created,                           \* directories the run has created
  ctxMade,                           \* the Context has been constructed
  fs,                                \* artifact files on disk
  current_apk,                       \* ctx.current_apk ("" before construction)
  metadata,                          \* keys of ctx.metadata
  engine_times,                      \* keys of the local engine_times dict
  perf_times,                        \* engine_times stored under "performance"
  i,                                 \* index of the for-loop over engines
  stage,                             \* stage kind being dispatched
  h,                                 \* next handler of the dispatch
  steps,                             \* operations done by the running engine
  trace,                             \* hook / engine / log events so far
  raised,                            \* what run_pipeline raised
  failedAt,                          \* index and exception of the engine that raised
  op,                                \* the operation the last step performed
  lastOk                             \* argument of the last successful set_current_apk

vars == <<inputKind, inputSuffix, inputSize, outputKind, engines, handlers, pc,
          created, ctxMade, fs, current_apk, metadata, engine_times, perf_times,
          i, stage, h, steps, trace, raised, failedAt, op, lastOk>>

inputVars == <<inputKind, inputSuffix, inputSize, outputKind, engines, handlers>>

\* the last step called set_current_apk(arg), which raised exc (or NoExc)
SetOp(arg, exc) == [name |-> "set_current_apk", arg |-> arg, exc |-> exc]
\* the last step called nothing of the Context
NoOp == [name |-> "none", arg |-> "", exc |-> NoExc]

Event(ev, arg, who) == [ev |-> ev, arg |-> arg, who |-> who]

SeqsUpTo(S, n) == UNION {[1..k -> S] : k \in 0..n}

(* --------------------- state of the module registry -------------------- *)

\* the two caches of _ModuleCache: _engines and _plugins
Caches == {"engines", "plugins"}
OtherCache(c) == IF c = "engines" THEN "plugins" ELSE "engines"
Threads == 1..MaxThreads

\* self._engines / self._plugins before discovery
None == [id |-> 0, reg |-> <<>>]
\* a call that has not returned anything
NoRet == [cache |-> "none", id |-> 0, exc |-> NoExc]

VARIABLES
  modules,    \* per namespace: what importing each of its modules does
  cache,      \* self._engines and self._plugins: None or the object stored
  tpc,        \* per thread: "idle", or the cache it found empty and is filling
  ret,        \* what the last call to finish returned or raised
  returned,   \* per cache: identities of the objects calls have returned
  populated,  \* per cache: how many times discovery has been stored in it
  warned,     \* per cache: modules the last discovery printed a warning for
  overlap,    \* per cache: two calls have found it empty at the same time
  ncalls      \* calls made so far

registryVars == <<modules, cache, tpc, ret, returned, populated, warned,
                  overlap, ncalls>>

\* no module cache call is made
RegistryIdle ==
  /\ modules = [c \in Caches |-> <<>>]
  /\ cache = [c \in Caches |-> None]
  /\ tpc = [t \in Threads |-> "idle"]
  /\ ret = NoRet
  /\ returned = [c \in Caches |-> {}]
  /\ populated = [c \in Caches |-> 0]
  /\ warned = [c \in Caches |-> {}]
  /\ overlap = [c \in Caches |-> FALSE]
  /\ ncalls = 0

(* ------------------- state of one discovery loop ----------------------- *)

VARIABLES
  namespace,  \* what importing each module of the namespace does
  dcache,     \* the cache the discovery is for
  visit,      \* the module the loop is at
  scan,       \* the loop's local state: registry built, warnings printed
  dpc         \* "idle", "scanning", "stored" or "raised"

discoveryVars == <<namespace, dcache, visit, scan, dpc>>

\* no discovery is followed
DiscoveryIdle ==
  /\ namespace = <<>>
  /\ dcache = "none"
  /\ visit = 0
  /\ scan = [exc |-> NoExc, reg |-> <<>>, warned |-> {}, visited |-> 0]
  /\ dpc = "idle"

(* ------------------------ state of optimize_apk ------------------------ *)

VARIABLES
  odebloat,   \* the debloat argument
  ominify,    \* the minify argument
  opatch,     \* ctx.options.get("revanced_patch_ads", False)
  smali,      \* the *.smali files of the decompiled tree
  ostage,     \* position in the stage list of the stage called next / running
  oin,        \* the stage at ostage has been entered and has not returned
  opc,        \* "idle", "running", "done" or "raised"
  olog,       \* stage events so far: start, return, raise
  ran,        \* per stage: external tool invocations made by it
  toolRun,    \* the last external tool run: its stage and what the tool did
  pending,    \* files submitted to the thread pool and not yet processed
  oraised     \* the exception optimize_apk's caller receives

optimizerVars == <<odebloat, ominify, opatch, smali, ostage, oin, opc, olog,
                   ran, toolRun, pending, oraised>>

\* the stages of optimize_apk, by the function called
Stages == <<"decompile_apk", "debloat_apk", "minify_resources", "patch_ads",
            "recompile_apk", "zipalign_apk">>
StageNames == {Stages[k] : k \in 1..Len(Stages)}

\* no external tool has run
NoToolRun == [stage |-> "none", spawnFails |-> FALSE, code |-> 0]

\* optimize_apk is not called
OptimizerIdle ==
  /\ odebloat = FALSE /\ ominify = FALSE /\ opatch = FALSE
  /\ smali = {}
  /\ ostage = 0 /\ oin = FALSE /\ opc = "idle"
  /\ olog = <<>>
  /\ ran = [st \in StageNames |-> 0]
  /\ toolRun = NoToolRun
  /\ pending = {}
  /\ oraised = NoExc

(* ------------------- state of debloat / minify runs -------------------- *)

VARIABLES
  tree0,          \* the decompiled tree as decompile_apk left it
  treeStart,      \* the tree when the current (or last) run started
  tree,           \* the tree now: path -> [kind, size]
  plist,          \* the pattern list of the runs
  top,            \* the function of the current (or last) run, "none" before it
  tprev,          \* the function of the run before that one
  trun,           \* a run is under way
  tk,             \* position in the pattern list
  tlisted,        \* list(decompiled_dir.rglob(pattern)) has been taken
  matches,        \* matches of the current pattern not yet looked at
  removed_count,  \* the run's removed_count
  removed_size,   \* the run's removed_size
  truns           \* runs started so far

treeVars == <<tree0, treeStart, tree, plist, top, tprev, trun, tk, tlisted, matches,
              removed_count, removed_size, truns>>

\* the tree with no entry
EmptyTree == [q \in {} |-> [kind |-> "file", size |-> 0]]

\* no debloat or minify run is made
TreeIdle ==
  /\ tree0 = EmptyTree /\ treeStart = EmptyTree /\ tree = EmptyTree
  /\ plist = <<>>
  /\ top = "none" /\ tprev = "none" /\ trun = FALSE
  /\ tk = 0 /\ tlisted = FALSE /\ matches = {}
  /\ removed_count = 0 /\ removed_size = 0
  /\ truns = 0

(* ---------------------- state of one patch_ads pool -------------------- *)

\* the smali files of the pool's tasks
Files == {"a.smali", "b.smali"}

\* a task that has not started
NoTask == [pc |-> "queued", k |-> 0, content |-> <<>>, original |-> <<>>, result |-> 0]

VARIABLES
  rules,      \* the rule list: (pattern, replacement, description) triples
  disk0,      \* the files' contents before the pool ran
  disk,       \* the files' contents now
  task,       \* per file: the locals of its _apply_patch_to_file call
  attempted,  \* per file: write_text calls made
  written     \* per file: write_text calls that wrote the file

patchVars == <<rules, disk0, disk, task, attempted, written>>

\* no patch task runs
PatchIdle ==
  /\ rules = <<>>
  /\ disk0 = [f \in Files |-> <<>>]
  /\ disk = [f \in Files |-> <<>>]
  /\ task = [f \in Files |-> NoTask]
  /\ attempted = [f \in Files |-> 0]
  /\ written = [f \in Files |-> 0]

(* ----------------------------- run_pipeline ---------------------------- *)

\* the state of the components run_pipeline does not touch
(* ----------------------- state of one run_command call ----------------- *)

\* the call's arguments and what its subprocess does: timeout 0 stands for
\* None, duration is how long the process runs, eof whether the process
\* closes its output before it exits
NoCall == [check |-> TRUE, timeout |-> 0, spawnFails |-> FALSE, duration |-> 0,
           code |-> 0]

\* the call has not returned
NoOutcome == [exc |-> "pending", returncode |-> 0]

VARIABLES
  call,      \* the arguments of the call and the behaviour of its subprocess
  cpc,       \* position of the call in run_command
  proc,      \* the subprocess: "none", "running", "exited", "reaped"
  elapsed,   \* time the subprocess has run
  retcode,   \* the local retcode
  outcome,   \* what the call gave its caller
  spawns,    \* Popen calls made
  kills      \* proc.kill() calls made

commandVars == <<call, cpc, proc, elapsed, retcode, outcome, spawns, kills>>

\* no run_command call is under way
CommandIdle ==
  /\ call = NoCall /\ cpc = "idle" /\ proc = "none" /\ elapsed = 0
  /\ retcode = 0 /\ outcome = NoOutcome /\ spawns = 0 /\ kills = 0

(* ------------------------ state of one patch_ads call ------------------ *)

\* the fields of a Context that a stage could change
NoContext == [current_apk |-> "", metadata |-> {}, options |-> {}]

VARIABLES
  pctx,           \* the Context passed to patch_ads
  pctx0,          \* the Context as it was when patch_ads was called
  emitted,        \* messages handed to the logger by ctx.log
  ppc,            \* position of the call in patch_ads
  smali_files,    \* the list rglob("*.smali") gave
  nworkers,       \* threads of the ThreadPoolExecutor
  futures,        \* the files of the submitted tasks, in submission order
  collected,      \* futures whose result() has been added
  total_patched,  \* the running counter
  submits,        \* per file: executor.submit calls made for it
  adds,           \* per file: additions of its task's result to the counter
  caught          \* per file: the exception its task's except block caught

poolVars == <<pctx, pctx0, emitted, ppc, smali_files, nworkers, futures, collected,
              total_patched, submits, adds, caught>>

\* no patch_ads call is under way
PoolIdle ==
  /\ pctx = NoContext /\ pctx0 = NoContext /\ emitted = {}
  /\ ppc = "idle" /\ smali_files = <<>> /\ nworkers = 1
  /\ futures = <<>> /\ collected = 0 /\ total_patched = 0
  /\ submits = [f \in Files |-> 0] /\ adds = [f \in Files |-> 0]
  /\ caught = [f \in Files |-> NoExc]

(* -------------------- state of one string_cleaner run ------------------ *)

\* the strings.xml files of the decompiled tree
StringsPaths == {"res/values/strings.xml", "res/values-de/strings.xml"}

\* the other files of the tree
OtherPaths ==
  {"res/layout/main.xml", "smali/A.smali", "res/drawable/icon.xml", "assets/notes.txt"}

VARIABLES
  sfiles0,           \* the strings.xml files' contents before the run
  sfiles,            \* the strings.xml files' contents now
  sources,           \* the other files' contents
  spc,               \* position of the run
  spass,             \* 1: analysis and removal, 2: the analysis made again
  stodo,             \* files the current loop has not reached yet
  all_strings,       \* the local all_strings
  used_strings,      \* the local used_strings
  string_locations,  \* the local string_locations
  usage_map,         \* the usage map the current analysis returned
  usage1,            \* the usage map of the first analysis
  sfailed            \* files whose read or write raised

stringsVars == <<sfiles0, sfiles, sources, spc, spass, stodo, all_strings,
                 used_strings, string_locations, usage_map, usage1, sfailed>>

\* no string_cleaner run is under way
StringsIdle ==
  /\ sfiles0 = [p \in StringsPaths |-> <<>>]
  /\ sfiles = [p \in StringsPaths |-> <<>>]
  /\ sources = [p \in OtherPaths |-> {}]
  /\ spc = "idle" /\ spass = 1 /\ stodo = {}
  /\ all_strings = {} /\ used_strings = {}
  /\ string_locations = <<>>
  /\ usage_map = <<>> /\ usage1 = <<>>
  /\ sfailed = {}

(* ------------- state of the engines' runs on one Context --------------- *)

\* the engines whose run() is followed step by step
SoftEngines == {"optimizer", "media_optimizer", "dtlx", "string_cleaner"}

\* the options each of them reads from ctx.options; "optimize_general"
\* stands for any of the four switches of the optimizer engine
EngineOptions(e) ==
  CASE e = "optimizer" -> {"optimize_general"}
    [] e = "media_optimizer" -> {"optimize_images", "optimize_audio", "target_dpi"}
    [] e = "dtlx" -> {"dtlx_analyze", "dtlx_optimize"}
    [] e = "string_cleaner" -> {"clean_unused_strings", "remove_unused_strings"}

\* a path is the input's stem followed by the tags engines appended to it:
\* <<"app", "optimized">> is app.optimized.apk
InputStem == <<"app">>

\* what _analyze_apk_strings can hand back: no usage map, a map without
\* unused keys, a map with unused keys
Analyses == {"empty", "all_used", "some_unused"}

\* ctx.metadata of a fresh Context: the empty mapping
NoMeta == <<>>

VARIABLES
  eopts,      \* ctx.options: the names of the options that are set
  equeue,     \* the engines run on the Context, in order
  ek,         \* position in equeue
  epc,        \* "idle" between engines, "aborted" once a run() has raised
  ecur,       \* ctx.current_apk
  efs,        \* the artifact paths that exist on disk
  emeta,      \* ctx.metadata: key -> the fields of its entry
  ewriters,   \* key -> the engines that have assigned to it
  elog        \* one record per finished run()

enginesVars == <<eopts, equeue, ek, epc, ecur, efs, emeta, ewriters, elog>>

\* no engine run is under way
EnginesIdle ==
  /\ eopts = {} /\ equeue = <<>> /\ ek = 0 /\ epc = "off"
  /\ ecur = <<>> /\ efs = {}
  /\ emeta = NoMeta /\ ewriters = NoMeta /\ elog = <<>>

(* ------------- state of one _remove_debug_symbols walk ----------------- *)

\* the extracted tree, as sequences of path components below the current
\* directory; the first component is extract_dir itself
ExtractDir == <<"app">>

WalkDirs ==
  {<<"app">>, <<"app", "debug_info">>, <<"app", "lib">>, <<"app", "lib", "tests">>}

WalkFiles ==
  {<<"app", "classes.dex">>, <<"app", "source.map">>,
   <<"app", "debug_info", "a.txt">>, <<"app", "debug_info", "b.txt">>,
   <<"app", "lib", "libnative.so">>, <<"app", "lib", "tests", "unit.py">>}

VARIABLES
  wtree0,     \* the entries of the tree when the walk started
  wtree,      \* the entries of the tree now
  locked,     \* the files whose os.unlink raises OSError
  wpc,        \* "walk", "dirs", "files" or "returned"
  wstack,     \* directories os.walk has still to yield
  wroot,      \* the directory os.walk has yielded
  wdirs,      \* entries of `dirs` the first loop has not reached yet
  wkept,      \* entries left in `dirs`, which os.walk descends into
  wfiles,     \* entries of `files` the second loop has not reached yet
  wcount,     \* the local removed_count
  wdeleted,   \* the files unlinked so far
  wvisited    \* the directories os.walk has yielded so far

debugVars == <<wtree0, wtree, locked, wpc, wstack, wroot, wdirs, wkept, wfiles,
               wcount, wdeleted, wvisited>>

\* no walk is under way
DebugIdle ==
  /\ wtree0 = {} /\ wtree = {} /\ locked = {}
  /\ wpc = "off" /\ wstack = {} /\ wroot = <<>>
  /\ wdirs = {} /\ wkept = {} /\ wfiles = {}
  /\ wcount = 0 /\ wdeleted = {} /\ wvisited = {}

restVars == <<registryVars, discoveryVars, optimizerVars, treeVars, patchVars, commandVars, poolVars, stringsVars, enginesVars, debugVars>>
RestIdle == RegistryIdle /\ DiscoveryIdle /\ OptimizerIdle /\ TreeIdle /\ PatchIdle /\ CommandIdle /\ PoolIdle /\ StringsIdle /\ EnginesIdle /\ DebugIdle

Init ==
  /\ RestIdle
  /\ inputKind \in InputKinds
  /\ inputSuffix \in Suffixes
  /\ inputSize \in Sizes
  /\ outputKind \in OutputKinds
  /\ engines \in SeqsUpTo(Names, MaxEngines)
  /\ handlers \in SeqsUpTo(HandlerKinds, MaxHandlers)
  /\ pc = "validating"
  /\ created = {}
  /\ ctxMade = FALSE
  /\ fs = IF inputKind = "file" THEN {InputApk} ELSE {}
  /\ current_apk = ""
  /\ metadata = {}
  /\ engine_times = {}
  /\ perf_times = {}
  /\ i = 0
  /\ stage = "none"
  /\ h = 0
  /\ steps = 0
  /\ trace = <<>>
  /\ raised = NoRaise
  /\ failedAt = [idx |-> 0, exc |-> NoExc]
  /\ op = NoOp
  /\ lastOk = ""

\* name of the engine the loop is at
CurName == IF i \in 1..Len(engines) THEN engines[i] ELSE ""

(* run_pipeline up to the first dispatch: validation, directories, Context *)
Validate ==
  /\ pc = "validating"
  /\ LET e1 == validate_apk_path(inputKind, inputSuffix, inputSize)
         e2 == validate_output_dir(outputKind)
         v == IF e1 # NoExc THEN e1 ELSE e2
         r == set_current_apk(InputApk, InputApk, fs)
     IN IF v # NoExc
          THEN /\ pc' = "aborted"
               /\ raised' = [type |-> v, msg |-> "", cause |-> NoExc, origin |-> "validation"]
               /\ op' = NoOp
               /\ UNCHANGED <<created, ctxMade, current_apk, lastOk, stage, h, trace>>
          ELSE /\ created' = MkdirAll(outputKind)
               /\ ctxMade' = TRUE
               /\ current_apk' = r.current
               /\ op' = SetOp(InputApk, r.exc)
               /\ lastOk' = IF r.exc = NoExc THEN InputApk ELSE lastOk
               /\ IF r.exc # NoExc
                    THEN /\ pc' = "aborted"
                         /\ raised' = [type |-> r.exc, msg |-> "", cause |-> NoExc,
                                       origin |-> "context"]
                         /\ UNCHANGED <<stage, h, trace>>
                    ELSE /\ pc' = "hooks"
                         /\ stage' = "pre_pipeline"
                         /\ h' = 1
                         /\ trace' = Append(trace, Event("log", "Starting pipeline", 0))
                         /\ UNCHANGED raised
  /\ UNCHANGED <<inputVars, fs, metadata, engine_times, perf_times, i, steps, failedAt>>

(* dispatch_hooks: one iteration of `for handler in handlers` *)
HookInvoke ==
  /\ pc = "hooks"
  /\ h \in 1..Len(handlers)
  /\ LET kind == handlers[h]
         label == StageLabel(stage, CurName)
         e == HandlerRaises(kind, stage, current_apk \in fs)
         called == Append(trace, Event("hook", label, h))
     IN /\ metadata' = metadata \cup HandlerKeys(kind, stage, e)
        /\ IF e = NoExc
             THEN /\ trace' = called
                  /\ h' = h + 1
                  /\ UNCHANGED <<pc, raised>>
             ELSE IF HookCatches(e)
               THEN /\ trace' = Append(called, Event("hook_error", label, h))
                    /\ h' = h + 1
                    /\ UNCHANGED <<pc, raised>>
               ELSE /\ trace' = called
                    /\ pc' = "aborted"
                    /\ raised' = [type |-> e, msg |-> "", cause |-> NoExc, origin |-> "hook"]
                    /\ UNCHANGED h
  /\ op' = NoOp
  /\ UNCHANGED <<inputVars, created, ctxMade, fs, current_apk, engine_times,
                 perf_times, i, stage, steps, failedAt, lastOk>>

(* dispatch_hooks("pre_pipeline") returned: enter the for-loop *)
StartLoop ==
  /\ pc = "hooks" /\ stage = "pre_pipeline" /\ h > Len(handlers)
  /\ pc' = "loop"
  /\ i' = 1
  /\ op' = NoOp
  /\ UNCHANGED <<inputVars, created, ctxMade, fs, current_apk, metadata, engine_times,
                 perf_times, stage, h, steps, trace, raised, failedAt, lastOk>>

(* loop body for a name that is not in the registry: log and continue *)
SkipUnknown ==
  /\ pc = "loop" /\ i \in 1..Len(engines)
  /\ ~IsKnown(engines[i], Registered)
  /\ trace' = Append(trace, Event("skip", engines[i], i))
  /\ i' = NextIndex(i)
  /\ op' = NoOp
  /\ UNCHANGED <<inputVars, pc, created, ctxMade, fs, current_apk, metadata, engine_times,
                 perf_times, stage, h, steps, raised, failedAt, lastOk>>

(* loop body for a registered name: dispatch pre_engine:<name> *)
PreEngine ==
  /\ pc = "loop" /\ i \in 1..Len(engines)
  /\ IsKnown(engines[i], Registered)
  /\ pc' = "hooks"
  /\ stage' = "pre_engine"
  /\ h' = 1
  /\ op' = NoOp
  /\ UNCHANGED <<inputVars, created, ctxMade, fs, current_apk, metadata, engine_times,
                 perf_times, i, steps, trace, raised, failedAt, lastOk>>

(* dispatch_hooks("pre_engine:<name>") returned: all_engines[name](ctx) *)
CallEngine ==
  /\ pc = "hooks" /\ stage = "pre_engine" /\ h > Len(handlers)
  /\ pc' = "engine"
  /\ steps' = 0
  /\ trace' = Append(trace, Event("call", CurName, i))
  /\ op' = NoOp
  /\ UNCHANGED <<inputVars, created, ctxMade, fs, current_apk, metadata, engine_times,
                 perf_times, i, stage, h, raised, failedAt, lastOk>>

(* ------------------------------ engine body ---------------------------- *)

\* a loop that logs the failure of an engine and goes on to its post_engine
\* stage
EngineRaised_GoOn(e) ==
  /\ steps' = 0
  /\ engine_times' = engine_times \cup {CurName}
  /\ failedAt' = [idx |-> i, exc |-> e]
  /\ raised' = EngineFailure(CurName, e)
  /\ pc' = "loop"
  /\ trace' = IF PipelineCatches(e)
                THEN Append(trace, Event("engine_failed", CurName, i))
                ELSE trace

\* the engine body raised e: the finally clause records the time, then the
\* except clause (or none) decides what leaves run_pipeline
EngineRaised(e) ==
  /\ steps' = 0
  /\ engine_times' = engine_times \cup {CurName}
  /\ failedAt' = [idx |-> i, exc |-> e]
  /\ raised' = EngineFailure(CurName, e)
  /\ pc' = "aborted"
  /\ trace' = IF PipelineCatches(e)
                THEN Append(trace, Event("engine_failed", CurName, i))
                ELSE trace

\* the engine body goes on to its next operation
EngineContinues ==
  /\ steps' = steps + 1
  /\ UNCHANGED <<pc, engine_times, failedAt, raised, trace>>

(* the engine (or the tool it ran) writes an artifact file *)
EngineWriteFile(p) ==
  /\ pc = "engine" /\ steps < MaxSteps
  /\ fs' = fs \cup {p}
  /\ EngineContinues
  /\ op' = NoOp
  /\ UNCHANGED <<inputVars, created, ctxMade, current_apk, metadata, perf_times,
                 i, stage, h, lastOk>>

(* the engine calls ctx.set_current_apk(p); a FileNotFoundError either *)
(* leaves the engine or is swallowed by the engine's own except clause *)
EngineSetCurrentApk(p, swallow) ==
  /\ pc = "engine" /\ steps < MaxSteps
  /\ LET r == set_current_apk(current_apk, p, fs)
     IN /\ swallow => r.exc # NoExc
        /\ current_apk' = r.current
        /\ op' = SetOp(p, r.exc)
        /\ lastOk' = IF r.exc = NoExc THEN p ELSE lastOk
        /\ IF r.exc # NoExc /\ ~swallow
             THEN EngineRaised(r.exc)
             ELSE EngineContinues
  /\ UNCHANGED <<inputVars, created, ctxMade, fs, metadata, perf_times, i, stage, h>>

(* revanced without optimization: rename the consumed artifact to its *)
(* final name, then point the Context at it *)
EngineRenameAndSet(p) ==
  /\ pc = "engine" /\ steps < MaxSteps
  /\ LET src == require_input_apk(current_apk, InputApk)
     IN IF src.exc # NoExc
          THEN /\ EngineRaised(src.exc)
               /\ op' = NoOp
               /\ UNCHANGED <<fs, current_apk, lastOk>>
          ELSE IF src.apk \notin fs
            THEN /\ EngineRaised("FileNotFoundError")
                 /\ op' = NoOp
                 /\ UNCHANGED <<fs, current_apk, lastOk>>
            ELSE LET files == (fs \ {src.apk}) \cup {p}
                     r == set_current_apk(current_apk, p, files)
                 IN /\ fs' = files
                    /\ current_apk' = r.current
                    /\ op' = SetOp(p, r.exc)
                    /\ lastOk' = IF r.exc = NoExc THEN p ELSE lastOk
                    /\ IF r.exc # NoExc
                         THEN EngineRaised(r.exc)
                         ELSE EngineContinues
  /\ UNCHANGED <<inputVars, created, ctxMade, metadata, perf_times, i, stage, h>>

(* the engine writes its own key of ctx.metadata *)
EngineWriteMeta ==
  /\ pc = "engine" /\ steps < MaxSteps
  /\ metadata' = metadata \cup {CurName}
  /\ EngineContinues
  /\ op' = NoOp
  /\ UNCHANGED <<inputVars, created, ctxMade, fs, current_apk, perf_times,
                 i, stage, h, lastOk>>

(* the engine runs an external tool through run_command; an exception *)
(* either leaves the engine or is swallowed by the engine's except clause *)
EngineRunCommand(check, spawnFails, timedOut, code, swallow) ==
  /\ pc = "engine" /\ steps < MaxSteps
  /\ LET r == run_command(check, spawnFails, timedOut, code)
     IN /\ swallow => r.exc # NoExc
        /\ IF r.exc # NoExc /\ ~swallow
             THEN EngineRaised(r.exc)
             ELSE EngineContinues
  /\ op' = NoOp
  /\ UNCHANGED <<inputVars, created, ctxMade, fs, current_apk, metadata, perf_times,
                 i, stage, h, lastOk>>

(* the engine raises an exception of its own *)
EngineRaise(e) ==
  /\ pc = "engine"
  /\ EngineRaised(e)
  /\ op' = NoOp
  /\ UNCHANGED <<inputVars, created, ctxMade, fs, current_apk, metadata, perf_times,
                 i, stage, h, lastOk>>

(* the engine returns: finally clause, then dispatch post_engine:<name> *)
EngineReturn ==
  /\ pc = "engine"
  /\ engine_times' = engine_times \cup {CurName}
  /\ trace' = Append(trace, Event("return", CurName, i))
  /\ pc' = "hooks"
  /\ stage' = "post_engine"
  /\ h' = 1
  /\ steps' = 0
  /\ op' = NoOp
  /\ UNCHANGED <<inputVars, created, ctxMade, fs, current_apk, metadata, perf_times,
                 i, raised, failedAt, lastOk>>

(* dispatch_hooks("post_engine:<name>") returned: next loop iteration *)
NextEngine ==
  /\ pc = "hooks" /\ stage = "post_engine" /\ h > Len(handlers)
  /\ pc' = "loop"
  /\ i' = NextIndex(i)
  /\ op' = NoOp
  /\ UNCHANGED <<inputVars, created, ctxMade, fs, current_apk, metadata, engine_times,
                 perf_times, stage, h, steps, trace, raised, failedAt, lastOk>>

(* the loop is exhausted: dispatch post_pipeline *)
PostPipeline ==
  /\ pc = "loop" /\ i > Len(engines)
  /\ pc' = "hooks"
  /\ stage' = "post_pipeline"
  /\ h' = 1
  /\ op' = NoOp
  /\ UNCHANGED <<inputVars, created, ctxMade, fs, current_apk, metadata, engine_times,
                 perf_times, i, steps, trace, raised, failedAt, lastOk>>

(* dispatch_hooks("post_pipeline") returned: store the metrics, return ctx *)
Finish ==
  /\ pc = "hooks" /\ stage = "post_pipeline" /\ h > Len(handlers)
  /\ metadata' = StoreMetrics(metadata)
  /\ perf_times' = engine_times
  /\ trace' = Append(trace, Event("log", "Pipeline finished", 0))
  /\ pc' = "completed"
  /\ op' = NoOp
  /\ UNCHANGED <<inputVars, created, ctxMade, fs, current_apk, engine_times,
                 i, stage, h, steps, raised, failedAt, lastOk>>

Next ==
  \/ Validate /\ UNCHANGED restVars
  \/ HookInvoke /\ UNCHANGED restVars
  \/ StartLoop /\ UNCHANGED restVars
  \/ SkipUnknown /\ UNCHANGED restVars
  \/ PreEngine /\ UNCHANGED restVars
  \/ CallEngine /\ UNCHANGED restVars
  \/ \E p \in OutPaths : EngineWriteFile(p) /\ UNCHANGED restVars
  \/ \E p \in Paths, swallow \in BOOLEAN : EngineSetCurrentApk(p, swallow) /\ UNCHANGED restVars
  \/ \E p \in OutPaths : EngineRenameAndSet(p) /\ UNCHANGED restVars
  \/ EngineWriteMeta /\ UNCHANGED restVars
  \/ \E check \in BOOLEAN, t \in ToolRuns, swallow \in BOOLEAN :
       EngineRunCommand(check, t.spawnFails, t.timedOut, t.code, swallow) /\ UNCHANGED restVars
  \/ \E e \in EngineRaises : EngineRaise(e) /\ UNCHANGED restVars
  \/ EngineReturn /\ UNCHANGED restVars
  \/ NextEngine /\ UNCHANGED restVars
  \/ PostPipeline /\ UNCHANGED restVars
  \/ Finish /\ UNCHANGED restVars

Spec == Init /\ [][Next]_vars

(* ============================== properties ============================= *)

\* names of the engines invoked so far, in invocation order
CallEvents == SelectSeq(trace, LAMBDA e : e.ev = "call")
CallNames == [k \in 1..Len(CallEvents) |-> CallEvents[k].arg]

\* the requested names up to position n that are registered, in order
KnownUpTo(n) == SelectSeq(SubSeq(engines, 1, n), LAMBDA x : x \in Registered)

\* the exception types that are an OSError, a ValueError or a RuntimeError
CaughtFamily == {"OSError", "FileNotFoundError", "ValueError", "RuntimeError"}

\* C1: when the engine at position i raises OSError, ValueError or
\* RuntimeError, run_pipeline raises a RuntimeError whose message names that
\* engine, and no engine at a later position is ever invoked.
C1_FailFastAbort ==
  (failedAt.idx # 0 /\ failedAt.exc \in CaughtFamily) =>
    /\ pc = "aborted"
    /\ raised.type = "RuntimeError"
    /\ raised.msg = "Engine " \o engines[failedAt.idx] \o " failed"
    /\ \A k \in 1..Len(trace) :
         trace[k].ev \in {"call", "skip"} => trace[k].who <= failedAt.idx
    /\ trace[Len(trace)] = Event("engine_failed", engines[failedAt.idx], failedAt.idx)
    /\ CallNames = KnownUpTo(failedAt.idx)

\* the first of two registered engines failed with a ValueError
C1_Witness ==
  /\ pc = "aborted"
  /\ failedAt.idx = 1
  /\ failedAt.exc = "ValueError"
  /\ Len(engines) = 2
  /\ engines[2] \in Registered

\* C2: a failure of an external tool inside an engine (run_command raising
\* CalledProcessError or TimeoutExpired) leaves run_pipeline as the wrapped
\* "Engine <name> failed" RuntimeError, never as the raw tool exception.
C2_ToolFailureRewrapped ==
  (failedAt.idx # 0 /\ failedAt.exc \in {"CalledProcessError", "TimeoutExpired"}) =>
    /\ raised.type = "RuntimeError"
    /\ raised.msg = "Engine " \o engines[failedAt.idx] \o " failed"

\* number of events of kind ev recorded for position j of the request list
CountAt(ev, j) == Len(SelectSeq(trace, LAMBDA e : e.ev = ev /\ e.who = j))

CallReturn == SelectSeq(trace, LAMBDA e : e.ev \in {"call", "return"})

\* C4: in a run that completes the engine invocations are the requested
\* names restricted to the registered ones, in order and once per
\* occurrence; and no engine starts before the previous one has returned.
C4_SequentialInOrder ==
  /\ pc = "completed" => CallNames = KnownUpTo(Len(engines))
  /\ \A k \in 1..Len(CallReturn) :
       IF k % 2 = 1
         THEN CallReturn[k].ev = "call"
         ELSE /\ CallReturn[k].ev = "return"
              /\ CallReturn[k].who = CallReturn[k - 1].who
  /\ \A k \in 1..(Len(CallEvents) - 1) : CallEvents[k].who < CallEvents[k + 1].who

\* a completed run that requested the same engine twice
C4_Witness ==
  /\ pc = "completed"
  /\ engines = <<"ok_engine", "ok_engine">>
  /\ CallNames = <<"ok_engine", "ok_engine">>

\* what handler hh sees of the run: the labels dispatched to it, and the
\* engine calls and returns around them
Tag(e) == IF e.ev = "hook" THEN e.arg ELSE e.ev \o ":" \o e.arg
SeenBy(hh) ==
  LET sel == SelectSeq(trace, LAMBDA e : (e.ev = "hook" /\ e.who = hh)
                                         \/ e.ev \in {"call", "return"})
  IN [k \in 1..Len(sel) |-> Tag(sel[k])]

RECURSIVE Bracketed(_)
\* pre_engine:e, the invocation of e, post_engine:e for each name in order
Bracketed(names) ==
  IF names = <<>> THEN <<>>
  ELSE <<"pre_engine:" \o Head(names), "call:" \o Head(names),
         "return:" \o Head(names), "post_engine:" \o Head(names)>>
       \o Bracketed(Tail(names))

\* C5: in a run that completes, every handler is dispatched exactly
\* pre_pipeline, then pre_engine:e right before and post_engine:e right after
\* the invocation of each registered engine e in order, then post_pipeline;
\* nothing is dispatched for an unknown name and no other label occurs.
C5_HookBracketing ==
  pc = "completed" =>
    \A hh \in 1..Len(handlers) :
      SeenBy(hh) = <<"pre_pipeline">> \o Bracketed(KnownUpTo(Len(engines)))
                   \o <<"post_pipeline">>

\* a completed run with a handler, a registered and an unknown engine
C5_Witness ==
  /\ pc = "completed"
  /\ Len(handlers) = 1
  /\ engines = <<"unknown_engine_xyz", "ok_engine">>

\* C6: no exception raised by a hook handler ever leaves dispatch_hooks or
\* aborts run_pipeline.
C6_HookFailuresNeverFatal ==
  raised.origin # "hook"

\* the input or the output path fails validation
InvalidInput ==
  \/ inputKind = "missing"
  \/ inputKind # "file"
  \/ inputSuffix \notin {".apk", ".APK"}
  \/ inputSize = 0
  \/ outputKind = "file"

\* C7: with an invalid input or output path run_pipeline raises
\* ValidationError before it creates a directory, constructs the Context or
\* invokes a hook or an engine.
C7_ValidationBeforeSideEffects ==
  InvalidInput =>
    /\ pc = "validating" \/ (pc = "aborted" /\ raised.type = "ValidationError")
    /\ created = {}
    /\ ~ctxMade
    /\ current_apk = ""
    /\ trace = <<>>

\* an empty .apk file was rejected
C7_Witness ==
  /\ pc = "aborted"
  /\ raised.type = "ValidationError"
  /\ inputKind = "file" /\ inputSuffix = ".apk" /\ inputSize = 0
  /\ outputKind = "missing"

\* C8 (as stated): a run on a valid input with an empty engine list returns
\* a Context whose current artifact is the input and whose metadata is empty.
C8_EmptyRunMetadataEmpty ==
  (pc = "completed" /\ engines = <<>>) =>
    (current_apk = InputApk /\ metadata = {})

\* the metadata keys only hook handlers write
PluginKeys == {"custom_plugin", "plugin_hooks_called"}

\* C8 (amended): a run on a valid input with an empty engine list invokes no
\* engine and returns a Context whose current artifact is the input and whose
\* metadata holds the "performance" entry written by run_pipeline, with empty
\* engine_times, and apart from it only keys written by hook handlers.
C8_EmptyRunMetadataPerformance ==
  (pc = "completed" /\ engines = <<>>) =>
    /\ current_apk = InputApk
    /\ "performance" \in metadata
    /\ perf_times = {}
    /\ metadata \ {"performance"} \subseteq PluginKeys
    /\ (\A hh \in 1..Len(handlers) : handlers[hh] # "custom") => metadata = {"performance"}
    /\ CallEvents = <<>>

\* a run over the empty engine list has returned
C8_Witness ==
  /\ pc = "completed"
  /\ engines = <<>>
  /\ handlers = <<"log">>
  /\ metadata = {"performance"}

\* C9: set_current_apk(p) on a missing p raises FileNotFoundError and leaves
\* the Context unchanged; on an existing p it sets current_apk to p; so
\* current_apk is always the input or the argument of the last successful call.
C9_SetCurrentApk ==
  /\ [](ctxMade => current_apk = (IF lastOk = "" THEN InputApk ELSE lastOk))
  /\ [][op'.name = "set_current_apk" =>
          IF op'.arg \notin fs'
            THEN /\ op'.exc = "FileNotFoundError"
                 /\ current_apk' = current_apk
                 /\ metadata' = metadata
                 /\ engines' = engines
                 /\ lastOk' = lastOk
            ELSE /\ op'.exc = NoExc
                 /\ current_apk' = op'.arg
                 /\ lastOk' = op'.arg]_vars

\* an engine's call with a missing path failed after an earlier call had
\* moved the pointer to the artifact the engine produced
C9_Witness ==
  /\ pc = "engine"
  /\ op = SetOp(InputApk, "FileNotFoundError")
  /\ current_apk \in OutPaths
  /\ lastOk = current_apk

ModuleKinds == {"ok", "no_run", "ModuleNotFoundError", "AttributeError", "SyntaxError"}
\* exceptions an import raises
ImportRaises == {"ModuleNotFoundError", "AttributeError", "SyntaxError"}

\* one loop iteration with an except clause that matches nothing
LoadModule_NoCatch(kind) ==
  IF kind \in ImportRaises
  THEN [exc |-> kind, accepted |-> FALSE, warn |-> FALSE]
  ELSE [exc |-> NoExc, accepted |-> kind = "ok", warn |-> FALSE]

\* one iteration of the discovery loop: import the module, accept it if it
\* exposes the callable, print a warning for ImportError / AttributeError,
\* let any other exception escape
LoadModule(kind) ==
  IF kind \in ImportRaises
  THEN IF IsInstance(kind, "ImportError") \/ IsInstance(kind, "AttributeError")
       THEN [exc |-> NoExc, accepted |-> FALSE, warn |-> TRUE]
       ELSE [exc |-> kind, accepted |-> FALSE, warn |-> FALSE]
  ELSE [exc |-> NoExc, accepted |-> kind = "ok", warn |-> FALSE]

\* the local state of a discovery before the first module
NoScan == [exc |-> NoExc, reg |-> <<>>, warned |-> {}, visited |-> 0]

RECURSIVE Discover(_, _, _)
\* the discovery loop over the modules ms from position k on; modules are
\* named by their position in the namespace
Discover(ms, k, acc) ==
  IF k > Len(ms) THEN acc
  ELSE LET r == LoadModule(ms[k])
           a == [exc |-> r.exc,
                 reg |-> IF r.accepted THEN Append(acc.reg, k) ELSE acc.reg,
                 warned |-> IF r.warn THEN acc.warned \cup {k} ELSE acc.warned,
                 visited |-> k]
       IN IF r.exc # NoExc THEN a ELSE Discover(ms, k + 1, a)

\* the cache test with the early return removed
IsCached_Never(v) == FALSE

\* `if self._engines is not None`
IsCached(v) == v # None

\* identity of the next object a discovery creates
NewId == populated["engines"] + populated["plugins"] + 1

\* get_engines() / get_plugins() up to the cache test: return the cached
\* object, or go on to discovery
Get(t, c) ==
  /\ tpc[t] = "idle"
  /\ ncalls < MaxCalls
  /\ ncalls' = ncalls + 1
  /\ IF IsCached(cache[c])
     THEN /\ ret' = [cache |-> c, id |-> cache[c].id, exc |-> NoExc]
          /\ returned' = [returned EXCEPT ![c] = @ \cup {cache[c].id}]
          /\ UNCHANGED <<tpc, overlap>>
     ELSE /\ tpc' = [tpc EXCEPT ![t] = c]
          /\ overlap' = [overlap EXCEPT ![c] = @ \/ \E u \in Threads \ {t} : tpc[u] = c]
          /\ UNCHANGED <<ret, returned>>
  /\ UNCHANGED <<modules, cache, populated, warned>>

get_engines(t) == Get(t, "engines")

get_plugins(t) == Get(t, "plugins")

\* the rest of get_engines() / get_plugins(): run discovery, store the
\* result in the cache and return it; an escaping exception stores nothing
Discovery(t) ==
  /\ tpc[t] \in Caches
  /\ LET c == tpc[t]
         d == Discover(modules[c], 1, NoScan)
     IN /\ warned' = [warned EXCEPT ![c] = d.warned]
        /\ IF d.exc # NoExc
           THEN /\ ret' = [cache |-> c, id |-> 0, exc |-> d.exc]
                /\ UNCHANGED <<cache, populated, returned>>
           ELSE /\ cache' = [cache EXCEPT ![c] = [id |-> NewId, reg |-> d.reg]]
                /\ populated' = [populated EXCEPT ![c] = @ + 1]
                /\ ret' = [cache |-> c, id |-> NewId, exc |-> NoExc]
                /\ returned' = [returned EXCEPT ![c] = @ \cup {NewId}]
  /\ tpc' = [tpc EXCEPT ![t] = "idle"]
  /\ UNCHANGED <<modules, overlap, ncalls>>

\* no pipeline is run
PipelineIdle ==
  /\ inputKind = "missing" /\ inputSuffix = ".apk" /\ inputSize = 0
  /\ outputKind = "missing"
  /\ engines = <<>> /\ handlers = <<>>
  /\ pc = "idle"
  /\ created = {} /\ ctxMade = FALSE /\ fs = {}
  /\ current_apk = "" /\ metadata = {} /\ engine_times = {} /\ perf_times = {}
  /\ i = 0 /\ stage = "none" /\ h = 0 /\ steps = 0
  /\ trace = <<>> /\ raised = NoRaise
  /\ failedAt = [idx |-> 0, exc |-> NoExc]
  /\ op = NoOp /\ lastOk = ""

\* the namespaces the cache is exercised with
RegistryModuleKinds == {"ok", "ModuleNotFoundError", "SyntaxError"}

RegistryInit ==
  /\ PipelineIdle /\ CommandIdle /\ PoolIdle /\ StringsIdle /\ EnginesIdle /\ DebugIdle
  /\ DiscoveryIdle
  /\ OptimizerIdle
  /\ TreeIdle
  /\ PatchIdle
  /\ modules \in [Caches -> SeqsUpTo(RegistryModuleKinds, MaxModules)]
  /\ cache = [c \in Caches |-> None]
  /\ tpc = [t \in Threads |-> "idle"]
  /\ ret = NoRet
  /\ returned = [c \in Caches |-> {}]
  /\ populated = [c \in Caches |-> 0]
  /\ warned = [c \in Caches |-> {}]
  /\ overlap = [c \in Caches |-> FALSE]
  /\ ncalls = 0

registryRest == <<vars, discoveryVars, optimizerVars, treeVars, patchVars, commandVars, poolVars, stringsVars, enginesVars, debugVars>>

RegistryNext ==
  \/ \E t \in Threads : get_engines(t) /\ UNCHANGED registryRest
  \/ \E t \in Threads : get_plugins(t) /\ UNCHANGED registryRest
  \/ \E t \in Threads : Discovery(t) /\ UNCHANGED registryRest

allVars == <<vars, restVars>>

SpecRegistry == RegistryInit /\ [][RegistryNext]_allVars

(* ------------------ one discovery, module by module -------------------- *)

\* the loop body at line 43-53 / 70-80 for the module at position `visit`
VisitModule ==
  /\ dpc = "scanning"
  /\ visit <= Len(namespace)
  /\ LET r == LoadModule(namespace[visit])
     IN /\ scan' = [exc |-> r.exc,
                    reg |-> IF r.accepted THEN Append(scan.reg, visit) ELSE scan.reg,
                    warned |-> IF r.warn THEN scan.warned \cup {visit} ELSE scan.warned,
                    visited |-> visit]
        /\ IF r.exc # NoExc
           THEN dpc' = "raised" /\ UNCHANGED visit
           ELSE visit' = visit + 1 /\ UNCHANGED dpc
  /\ UNCHANGED <<namespace, dcache>>

\* the loop is over: self._engines = engines / self._plugins = hook_funcs
StoreRegistry ==
  /\ dpc = "scanning"
  /\ visit > Len(namespace)
  /\ dpc' = "stored"
  /\ UNCHANGED <<namespace, dcache, visit, scan>>

DiscoveryInit ==
  /\ PipelineIdle /\ CommandIdle /\ PoolIdle /\ StringsIdle /\ EnginesIdle /\ DebugIdle
  /\ RegistryIdle
  /\ OptimizerIdle
  /\ TreeIdle
  /\ PatchIdle
  /\ namespace \in SeqsUpTo(ModuleKinds, MaxNamespace)
  /\ dcache \in Caches
  /\ visit = 1
  /\ scan = NoScan
  /\ dpc = "scanning"

discoveryRest == <<vars, registryVars, optimizerVars, treeVars, patchVars, commandVars, poolVars, stringsVars, enginesVars, debugVars>>

DiscoveryNext ==
  \/ VisitModule /\ UNCHANGED discoveryRest
  \/ StoreRegistry /\ UNCHANGED discoveryRest

SpecDiscovery == DiscoveryInit /\ [][DiscoveryNext]_allVars

\* C11: as long as no two calls have found a cache empty at the same time,
\* discovery is stored in it at most once, every call returns the one object
\* stored, no call runs discovery on a populated cache, and a step that
\* populates one cache leaves the other cache as it was.
C11_RegistryCaching ==
  /\ [](\A c \in Caches : ~overlap[c] =>
          /\ populated[c] <= 1
          /\ Cardinality(returned[c]) <= 1
          /\ cache[c] # None =>
               /\ \A t \in Threads : tpc[t] # c
               /\ returned[c] = {cache[c].id}
               /\ populated[c] = 1)
  /\ [][\A c \in Caches : cache'[c] # cache[c] =>
          /\ cache'[OtherCache(c)] = cache[OtherCache(c)]
          /\ populated'[OtherCache(c)] = populated[OtherCache(c)]
          /\ returned'[OtherCache(c)] = returned[OtherCache(c)]]_allVars

\* get_engines() was called twice, one call after the other: the first ran
\* discovery, the second returned the cached mapping; the plugin cache,
\* whose discovery would succeed, is still empty
C11_Witness ==
  /\ ncalls = 2
  /\ \A t \in Threads : tpc[t] = "idle"
  /\ ~overlap["engines"]
  /\ populated["engines"] = 1
  /\ ret = [cache |-> "engines", id |-> cache["engines"].id, exc |-> NoExc]
  /\ modules["plugins"] = <<"ok">>
  /\ cache["plugins"] = None

\* C12: whatever the interleaving of the calling threads, discovery is
\* stored in each cache at most once and all calls return the same object.
C12_ThreadSafeCache ==
  \A c \in Caches :
    /\ populated[c] <= 1
    /\ Cardinality(returned[c]) <= 1

\* import failures and attribute-lookup failures
CaughtKinds == {"ImportError", "ModuleNotFoundError", "AttributeError"}

\* the positions held by a sequence of positions
Positions(q) == {q[j] : j \in 1..Len(q)}

ToolStages == {"decompile_apk", "recompile_apk", "zipalign_apk"}

\* the stages called without any condition on the arguments
StageEnabled_All(st, d, m, p) == TRUE

\* `if debloat:`, `if minify:`, `if patch_ads_enabled:`
StageEnabled(st, d, m, p) ==
  CASE st = "debloat_apk" -> d
    [] st = "minify_resources" -> m
    [] st = "patch_ads" -> p
    [] OTHER -> TRUE

\* what the tools of optimize_apk can do: they are run without a timeout
OptimizerToolRuns == {t \in ToolRuns : ~t.timedOut}

\* the tool call made with check=False
StageResult_NoCheck(t) == run_command(FALSE, t.spawnFails, FALSE, t.code)

\* run_command(cmd, ctx) as the tool stages call it: check=True, timeout=None
StageResult(t) == run_command(TRUE, t.spawnFails, FALSE, t.code)

StageEvent(ev, st) == [ev |-> ev, stage |-> st]

\* the stage optimize_apk is at
CurStage == Stages[ostage]

\* a stage whose condition is false is passed over
OptimizeSkip ==
  /\ opc = "running" /\ ~oin /\ ostage <= Len(Stages)
  /\ ~StageEnabled(CurStage, odebloat, ominify, opatch)
  /\ ostage' = ostage + 1
  /\ UNCHANGED <<odebloat, ominify, opatch, smali, oin, opc, olog, ran, toolRun,
                 pending, oraised>>

\* optimize_apk calls the stage function; patch_ads submits one task per
\* smali file to its thread pool
StageStart ==
  /\ opc = "running" /\ ~oin /\ ostage <= Len(Stages)
  /\ StageEnabled(CurStage, odebloat, ominify, opatch)
  /\ oin' = TRUE
  /\ olog' = Append(olog, StageEvent("start", CurStage))
  /\ pending' = IF CurStage = "patch_ads" THEN smali ELSE pending
  /\ UNCHANGED <<odebloat, ominify, opatch, smali, ostage, opc, ran, toolRun, oraised>>

\* the stage function returns to optimize_apk
StageReturns ==
  /\ oin' = FALSE
  /\ olog' = Append(olog, StageEvent("return", CurStage))
  /\ ostage' = ostage + 1
  /\ UNCHANGED <<opc, oraised>>

\* the stage function raises e, which optimize_apk does not catch
StageRaises(e) ==
  /\ oin' = FALSE
  /\ olog' = Append(olog, StageEvent("raise", CurStage))
  /\ opc' = "raised"
  /\ oraised' = e
  /\ UNCHANGED ostage

\* decompile_apk / recompile_apk / zipalign_apk: one run_command call
ToolStage(t) ==
  /\ opc = "running" /\ oin /\ CurStage \in ToolStages
  /\ ran' = [ran EXCEPT ![CurStage] = @ + 1]
  /\ toolRun' = [stage |-> CurStage, spawnFails |-> t.spawnFails, code |-> t.code]
  /\ LET r == StageResult(t)
     IN IF r.exc # NoExc THEN StageRaises(r.exc) ELSE StageReturns
  /\ UNCHANGED <<odebloat, ominify, opatch, smali, pending>>

\* debloat_apk / minify_resources: the removals succeed, or one raises OSError
TreeStage(e) ==
  /\ opc = "running" /\ oin /\ CurStage \in {"debloat_apk", "minify_resources"}
  /\ IF e # NoExc THEN StageRaises(e) ELSE StageReturns
  /\ UNCHANGED <<odebloat, ominify, opatch, smali, ran, toolRun, pending>>

\* a pool thread runs _apply_patch_to_file on one submitted file
PatchWorker(f) ==
  /\ opc = "running" /\ oin /\ CurStage = "patch_ads"
  /\ f \in pending
  /\ pending' = pending \ {f}
  /\ UNCHANGED <<odebloat, ominify, opatch, smali, ostage, oin, opc, olog, ran,
                 toolRun, oraised>>

\* patch_ads returns: every future has a result and the pool is shut down
PatchReturn ==
  /\ opc = "running" /\ oin /\ CurStage = "patch_ads"
  /\ pending = {}
  /\ StageReturns
  /\ UNCHANGED <<odebloat, ominify, opatch, smali, ran, toolRun, pending>>

\* zipalign_apk has returned: optimize_apk logs completion and returns
OptimizeDone ==
  /\ opc = "running" /\ ~oin /\ ostage = Len(Stages) + 1
  /\ opc' = "done"
  /\ UNCHANGED <<odebloat, ominify, opatch, smali, ostage, oin, olog, ran, toolRun,
                 pending, oraised>>

OptimizerInit ==
  /\ PipelineIdle /\ RegistryIdle /\ DiscoveryIdle /\ TreeIdle /\ PatchIdle /\ CommandIdle /\ PoolIdle /\ StringsIdle /\ EnginesIdle /\ DebugIdle
  /\ odebloat \in BOOLEAN /\ ominify \in BOOLEAN /\ opatch \in BOOLEAN
  /\ smali \in {1..n : n \in 0..MaxSmali}
  /\ ostage = 1 /\ oin = FALSE /\ opc = "running"
  /\ olog = <<>>
  /\ ran = [st \in StageNames |-> 0]
  /\ toolRun = NoToolRun
  /\ pending = {}
  /\ oraised = NoExc

optimizerRest == <<vars, registryVars, discoveryVars, treeVars, patchVars, commandVars, poolVars, stringsVars, enginesVars, debugVars>>

OptimizerNext ==
  \/ OptimizeSkip /\ UNCHANGED optimizerRest
  \/ StageStart /\ UNCHANGED optimizerRest
  \/ \E t \in OptimizerToolRuns : ToolStage(t) /\ UNCHANGED optimizerRest
  \/ \E e \in {NoExc, "OSError"} : TreeStage(e) /\ UNCHANGED optimizerRest
  \/ \E f \in pending : PatchWorker(f) /\ UNCHANGED optimizerRest
  \/ PatchReturn /\ UNCHANGED optimizerRest
  \/ OptimizeDone /\ UNCHANGED optimizerRest

SpecOptimizer == OptimizerInit /\ [][OptimizerNext]_allVars

\* position of a stage in the stage list
StageIdx(st) == CHOOSE k \in 1..Len(Stages) : Stages[k] = st

\* positions of the log at which stage st was started
StartedAt(st) == {j \in 1..Len(olog) : olog[j] = StageEvent("start", st)}

\* the stages a call with the given arguments is to run
Wanted(st) ==
  \/ st \in {"decompile_apk", "recompile_apk", "zipalign_apk"}
  \/ st = "debloat_apk" /\ odebloat
  \/ st = "minify_resources" /\ ominify
  \/ st = "patch_ads" /\ opatch

\* C14: stages start in the order decompile, debloat, minify, patch,
\* recompile, align, each at most once and only when it is wanted; a stage
\* that has started returns (or raises) before another stage starts, and no
\* patch task is still running then; a successful call has run decompile,
\* recompile and align once each, and each optional stage iff its flag is set.
C14_StageOrder ==
  /\ \A j \in 1..Len(olog) :
       /\ j = 1 => olog[j].ev = "start"
       /\ (olog[j].ev = "start" /\ j < Len(olog)) =>
            /\ olog[j + 1].stage = olog[j].stage
            /\ olog[j + 1].ev \in {"return", "raise"}
       /\ (olog[j].ev = "return" /\ j < Len(olog)) =>
            /\ olog[j + 1].ev = "start"
            /\ StageIdx(olog[j + 1].stage) > StageIdx(olog[j].stage)
       /\ olog[j].ev = "raise" => j = Len(olog)
  /\ pending # {} => (oin /\ CurStage = "patch_ads")
  /\ \A st \in StageNames :
       /\ Cardinality(StartedAt(st)) <= 1
       /\ StartedAt(st) # {} => Wanted(st)
  /\ opc = "done" =>
       /\ \A st \in StageNames :
            /\ Wanted(st) <=> StartedAt(st) # {}
            /\ Wanted(st) <=> \E j \in 1..Len(olog) : olog[j] = StageEvent("return", st)
       /\ \A st \in ToolStages : ran[st] = 1

\* a successful call with debloat on, minify off and ad patching on, with
\* smali files to patch
C14_Witness ==
  /\ opc = "done"
  /\ odebloat /\ ~ominify /\ opatch
  /\ smali # {}
  /\ Len(olog) = 10

\* the last external tool run did not succeed
ToolFailed == toolRun.stage # "none" /\ (toolRun.spawnFails \/ toolRun.code # 0)

\* C15: no stage runs its tool more than once; when the tool of decompile,
\* recompile or align fails, that stage raises as its last act, the caller
\* of optimize_apk receives the exception run_command raised, and no later
\* stage has started or run a tool.
C15_ToolFailureFatal ==
  /\ \A st \in StageNames : ran[st] <= 1
  /\ ToolFailed =>
       /\ opc = "raised"
       /\ ~oin
       /\ olog[Len(olog)] = StageEvent("raise", toolRun.stage)
       /\ ran[toolRun.stage] = 1
       /\ oraised = IF toolRun.spawnFails THEN "OSError" ELSE "CalledProcessError"
       /\ \A st \in StageNames : StageIdx(st) > StageIdx(toolRun.stage) =>
            (StartedAt(st) = {} /\ ran[st] = 0)

\* the recompiler exited with a non-zero code after the tree stages ran
C15_Witness ==
  /\ toolRun = [stage |-> "recompile_apk", spawnFails |-> FALSE, code |-> 1]
  /\ opc = "raised"
  /\ StartedAt("debloat_apk") # {}

(* ============== debloat_apk / minify_resources (rvp/optimizer.py) ====== *)

\* paths a decompiled tree may hold, as sequences of path components
TreePaths ==
  {<<"res">>,
   <<"res", "drawable-xxxhdpi">>,
   <<"res", "drawable-xxxhdpi", "icon.png">>,
   <<"assets">>,
   <<"assets", "unused">>,
   <<"assets", "unused", "icon.png">>}

\* size in bytes of the file at a path
FileSize(q) == IF q[1] = "res" THEN 3 ELSE 5

\* the directory holding q
Parent(q) == SubSeq(q, 1, Len(q) - 1)

\* q lies under the directory d
Under(q, d) == Len(d) < Len(q) /\ SubSeq(q, 1, Len(d)) = d

\* the trees over TreePaths: every entry below the root lies in a directory
Trees ==
  {f \in UNION {[S -> {"file", "dir"}] : S \in SUBSET TreePaths} :
     \A q \in DOMAIN f : Len(q) > 1 =>
        (Parent(q) \in DOMAIN f /\ f[Parent(q)] = "dir")}

\* glob patterns, as sequences of component patterns
Patterns ==
  {<<"res", "drawable-xxxhdpi", "*">>, <<"*.png">>, <<"unused">>, <<"*">>}

\* names ending in .png
PngNames == {"icon.png"}

\* one path component against one component of a glob pattern
CompMatches(name, pat) ==
  \/ pat = "*"
  \/ pat = "*.png" /\ name \in PngNames
  \/ pat = name

\* Path.rglob(pattern) selects q: the pattern matches the trailing
\* components of q, at any depth below the root
Matches(q, pattern) ==
  /\ Len(q) >= Len(pattern)
  /\ \A j \in 1..Len(pattern) : CompMatches(q[Len(q) - Len(pattern) + j], pattern[j])

\* list(decompiled_dir.rglob(pattern))
rglob(t, pattern) == {q \in DOMAIN t : Matches(q, pattern)}

\* Path.unlink() that leaves the file in place
unlink_Keep(t, q) == t

\* Path.unlink()
unlink(t, q) == [r \in (DOMAIN t) \ {q} |-> t[r]]

\* a rmtree that removes the directory entry and leaves what is under it
rmtree_Shallow(t, q) == [r \in (DOMAIN t) \ {q} |-> t[r]]

\* shutil.rmtree(): the directory and everything under it
rmtree(t, q) == [r \in {x \in DOMAIN t : x # q /\ ~Under(x, q)} |-> t[r]]

is_file(t, q) == q \in DOMAIN t /\ t[q].kind = "file"

is_dir(t, q) == q \in DOMAIN t /\ t[q].kind = "dir"

\* the body of debloat's inner loop with the directory branch left out
debloat_match_FilesOnly(t, m) ==
  IF is_file(t, m) THEN [tree |-> unlink(t, m), count |-> 1, size |-> 0]
  ELSE [tree |-> t, count |-> 0, size |-> 0]

\* the body of debloat_apk's inner loop for one match
debloat_match(t, m) ==
  IF is_file(t, m) THEN [tree |-> unlink(t, m), count |-> 1, size |-> 0]
  ELSE IF is_dir(t, m) THEN [tree |-> rmtree(t, m), count |-> 1, size |-> 0]
  ELSE [tree |-> t, count |-> 0, size |-> 0]

\* the body of minify's inner loop with debloat's directory branch added
minify_match_Dirs(t, m) ==
  IF is_file(t, m) THEN [tree |-> unlink(t, m), count |-> 1, size |-> t[m].size]
  ELSE IF is_dir(t, m) THEN [tree |-> rmtree(t, m), count |-> 1, size |-> 0]
  ELSE [tree |-> t, count |-> 0, size |-> 0]

\* the body of minify_resources' inner loop for one match
minify_match(t, m) ==
  IF is_file(t, m) THEN [tree |-> unlink(t, m), count |-> 1, size |-> t[m].size]
  ELSE [tree |-> t, count |-> 0, size |-> 0]

\* the tree with the given kinds, files carrying their sizes
MkTree(f) ==
  [q \in DOMAIN f |->
     [kind |-> f[q], size |-> IF f[q] = "file" THEN FileSize(q) ELSE 0]]

TreeFunctions == {"debloat_apk", "minify_resources"}

\* debloat_apk(decompiled_dir, ctx) or minify_resources(decompiled_dir, ctx)
\* is called: the counters start at zero
TreeCall(fn) ==
  /\ ~trun
  /\ truns < MaxRuns
  /\ truns' = truns + 1
  /\ trun' = TRUE
  /\ top' = fn
  /\ tprev' = top
  /\ treeStart' = tree
  /\ tk' = 1 /\ tlisted' = FALSE /\ matches' = {}
  /\ removed_count' = 0 /\ removed_size' = 0
  /\ UNCHANGED <<tree0, tree, plist>>

\* matches = list(decompiled_dir.rglob(pattern)) for the next pattern
ListMatches ==
  /\ trun /\ ~tlisted /\ tk <= Len(plist)
  /\ matches' = rglob(tree, plist[tk])
  /\ tlisted' = TRUE
  /\ UNCHANGED <<tree0, treeStart, tree, plist, top, tprev, trun, tk, removed_count,
                 removed_size, truns>>

\* the inner loop looks at one match; the order of a directory listing is
\* not fixed
RemoveMatch(m) ==
  /\ trun /\ tlisted /\ m \in matches
  /\ LET r == IF top = "debloat_apk" THEN debloat_match(tree, m)
              ELSE minify_match(tree, m)
     IN /\ tree' = r.tree
        /\ removed_count' = removed_count + r.count
        /\ removed_size' = removed_size + r.size
  /\ matches' = matches \ {m}
  /\ UNCHANGED <<tree0, treeStart, plist, top, tprev, trun, tk, tlisted, truns>>

\* the inner loop is over: on to the next pattern
NextPattern ==
  /\ trun /\ tlisted /\ matches = {}
  /\ tk' = tk + 1
  /\ tlisted' = FALSE
  /\ UNCHANGED <<tree0, treeStart, tree, plist, top, tprev, trun, matches,
                 removed_count, removed_size, truns>>

\* the outer loop is over (or the list is empty): log the totals and return
TreeReturn ==
  /\ trun /\ ~tlisted /\ tk > Len(plist)
  /\ trun' = FALSE
  /\ UNCHANGED <<tree0, treeStart, tree, plist, top, tprev, tk, tlisted, matches,
                 removed_count, removed_size, truns>>

TreeInit ==
  /\ PipelineIdle /\ RegistryIdle /\ DiscoveryIdle /\ OptimizerIdle /\ PatchIdle /\ CommandIdle /\ PoolIdle /\ StringsIdle /\ EnginesIdle /\ DebugIdle
  /\ tree0 \in {MkTree(f) : f \in Trees}
  /\ treeStart = tree0
  /\ tree = tree0
  /\ plist \in SeqsUpTo(Patterns, MaxPatterns)
  /\ top = "none" /\ tprev = "none" /\ trun = FALSE
  /\ tk = 0 /\ tlisted = FALSE /\ matches = {}
  /\ removed_count = 0 /\ removed_size = 0
  /\ truns = 0

treeRest == <<vars, registryVars, discoveryVars, optimizerVars, patchVars, commandVars, poolVars, stringsVars, enginesVars, debugVars>>

TreeNext ==
  \/ \E fn \in TreeFunctions : TreeCall(fn) /\ UNCHANGED treeRest
  \/ ListMatches /\ UNCHANGED treeRest
  \/ \E m \in matches : RemoveMatch(m) /\ UNCHANGED treeRest
  \/ NextPattern /\ UNCHANGED treeRest
  \/ TreeReturn /\ UNCHANGED treeRest

SpecTree == TreeInit /\ [][TreeNext]_allVars

\* q matches a pattern of the list
MatchesAny(q) == \E j \in 1..Len(plist) : Matches(q, plist[j])

\* the last run has returned and was a run of fn
Returned(fn) == ~trun /\ top = fn

\* C16 as stated: after a debloat or minify run no entry that matches a
\* pattern is left, and every entry that matches no pattern is still there,
\* unchanged.
C16_NoMatchLeftRestUntouched ==
  (Returned("debloat_apk") \/ Returned("minify_resources")) =>
    /\ \A q \in DOMAIN tree : ~MatchesAny(q)
    /\ \A q \in DOMAIN treeStart :
         ~MatchesAny(q) => (q \in DOMAIN tree /\ tree[q] = treeStart[q])

\* C16, amended: a debloat run leaves exactly the entries that neither match
\* a pattern nor lie under a directory that matches one; a minify run leaves
\* exactly the entries other than the regular files that match a pattern;
\* every entry left is unchanged.
C16_MatchesRemoved ==
  /\ Returned("debloat_apk") =>
       \A q \in DOMAIN treeStart :
         /\ q \in DOMAIN tree <=>
              ~(MatchesAny(q) \/
                \E d \in DOMAIN treeStart : MatchesAny(d) /\ Under(q, d))
         /\ q \in DOMAIN tree => tree[q] = treeStart[q]
  /\ Returned("minify_resources") =>
       \A q \in DOMAIN treeStart :
         /\ q \in DOMAIN tree <=> ~(treeStart[q].kind = "file" /\ MatchesAny(q))
         /\ q \in DOMAIN tree => tree[q] = treeStart[q]
  /\ DOMAIN tree \subseteq DOMAIN treeStart

\* a debloat run removed an entry that matches no pattern, with the
\* directory above it that does
C16_Witness ==
  /\ Returned("debloat_apk")
  /\ \E q \in DOMAIN treeStart :
       /\ ~MatchesAny(q)
       /\ q \notin DOMAIN tree
       /\ \E d \in DOMAIN treeStart : treeStart[d].kind = "dir" /\ Under(q, d) /\ MatchesAny(d)

\* C17: in a debloat run that follows a debloat run with the same pattern
\* list, nothing is removed: the count stays zero and the tree stays as the
\* first run left it.
C17_DebloatIdempotent ==
  (top = "debloat_apk" /\ tprev = "debloat_apk") =>
    /\ removed_count = 0
    /\ tree = treeStart

\* a second debloat run has returned after a first one that removed entries
C17_Witness ==
  /\ Returned("debloat_apk")
  /\ tprev = "debloat_apk"
  /\ plist # <<>>
  /\ tree # tree0

RECURSIVE SumSizes(_, _)
\* the sizes of the entries S of t added up
SumSizes(S, t) ==
  IF S = {} THEN 0
  ELSE LET q == CHOOSE x \in S : TRUE IN t[q].size + SumSizes(S \ {q}, t)

\* the regular files a minify run is to remove
MinifyTargets == {q \in DOMAIN treeStart : treeStart[q].kind = "file" /\ MatchesAny(q)}

\* C18: a minify run never removes a directory; when it returns, the files
\* gone are the regular files that match a pattern, the count is their
\* number and the byte total is the sum of their sizes.
C18_MinifyFilesOnly ==
  top = "minify_resources" =>
    /\ \A q \in DOMAIN treeStart :
         treeStart[q].kind = "dir" => (q \in DOMAIN tree /\ tree[q] = treeStart[q])
    /\ ~trun =>
         /\ (DOMAIN treeStart) \ (DOMAIN tree) = MinifyTargets
         /\ removed_count = Cardinality(MinifyTargets)
         /\ removed_size = SumSizes(MinifyTargets, treeStart)

\* the tree holds res/drawable-xxxhdpi/icon.png, the list is the one pattern
\* res/drawable-xxxhdpi/*: icon.png is gone and the count is 1
C18_Witness ==
  /\ Returned("minify_resources")
  /\ plist = << <<"res", "drawable-xxxhdpi", "*">> >>
  /\ is_file(treeStart, <<"res", "drawable-xxxhdpi", "icon.png">>)
  /\ <<"res", "drawable-xxxhdpi", "icon.png">> \notin DOMAIN tree
  /\ removed_count = 1

(* ================ _apply_patch_to_file (rvp/optimizer.py) ============== *)

\* file contents: sequences of tokens; "\\xff" is a byte that is not UTF-8
Contents ==
  {<<>>, <<"ad">>, <<"x", "ad">>, <<"nop", "ad">>, <<"\\xff", "ad">>}

\* the rules: what the pattern matches, what the match is replaced with, and
\* whether the replacement template is one re.sub rejects
PatchRules ==
  {[pat |-> "ad", repl |-> <<"nop">>, bad |-> FALSE],
   [pat |-> "nop", repl |-> <<>>, bad |-> FALSE],
   [pat |-> "nop", repl |-> <<"ad">>, bad |-> FALSE],
   [pat |-> "x", repl |-> <<"x">>, bad |-> FALSE],
   [pat |-> "ad", repl |-> <<"\\9">>, bad |-> TRUE]}

RECURSIVE Decode(_)
\* bytes.decode("utf-8", errors="ignore"): bytes that are not UTF-8 are dropped
Decode(bytes) ==
  IF bytes = <<>> THEN <<>>
  ELSE (IF Head(bytes) = "\\xff" THEN <<>> ELSE <<Head(bytes)>>) \o Decode(Tail(bytes))

RECURSIVE Sub(_, _)
\* re.sub(pattern, replacement, content): every match is replaced
Sub(rule, text) ==
  IF text = <<>> THEN <<>>
  ELSE (IF Head(text) = rule.pat THEN rule.repl ELSE <<Head(text)>>) \o Sub(rule, Tail(text))

\* the loop body applied to the text that was read instead of the evolving text
NextContent_FromOriginal(rule, content, original) == Sub(rule, original)

\* `content = re.sub(pattern, replacement, content)`
NextContent(rule, content, original) == Sub(rule, content)

\* the write made whatever the rules did
ShouldWrite_Always(content, original) == TRUE

\* `if content != original_content`
ShouldWrite(content, original) == content # original

\* the call returns n: the try block's return, or the except block's 0
Return(f, n) == [task EXCEPT ![f].pc = "done", ![f].result = n]

\* content = file_path.read_text(...); original_content = content
ReadText(f, ok) ==
  /\ task[f].pc = "queued"
  /\ task' = IF ok
             THEN [task EXCEPT ![f] = [pc |-> "patching", k |-> 1,
                                       content |-> Decode(disk[f]),
                                       original |-> Decode(disk[f]),
                                       result |-> 0]]
             ELSE Return(f, 0)
  /\ UNCHANGED <<rules, disk0, disk, attempted, written>>

\* one iteration of the loop over the rules; a rejected template raises
\* re.error, which the except block turns into a return of 0
ApplyRule(f) ==
  /\ task[f].pc = "patching"
  /\ task[f].k <= Len(rules)
  /\ LET rule == rules[task[f].k]
     IN task' = IF rule.bad THEN Return(f, 0)
                ELSE [task EXCEPT
                        ![f].content = NextContent(rule, task[f].content, task[f].original),
                        ![f].k = @ + 1]
  /\ UNCHANGED <<rules, disk0, disk, attempted, written>>

\* after the loop: write the text back if it changed; a write that raises
\* OSError leaves the file alone and the call returns 0
WriteBack(f, ok) ==
  /\ task[f].pc = "patching"
  /\ task[f].k > Len(rules)
  /\ IF ShouldWrite(task[f].content, task[f].original)
     THEN /\ attempted' = [attempted EXCEPT ![f] = @ + 1]
          /\ IF ok
             THEN /\ disk' = [disk EXCEPT ![f] = task[f].content]
                  /\ written' = [written EXCEPT ![f] = @ + 1]
                  /\ task' = Return(f, 1)
             ELSE /\ task' = Return(f, 0)
                  /\ UNCHANGED <<disk, written>>
     ELSE /\ ok
          /\ task' = Return(f, 0)
          /\ UNCHANGED <<disk, attempted, written>>
  /\ UNCHANGED <<rules, disk0>>

PatchInit ==
  /\ PipelineIdle /\ RegistryIdle /\ DiscoveryIdle /\ OptimizerIdle /\ TreeIdle /\ CommandIdle /\ PoolIdle /\ StringsIdle /\ EnginesIdle /\ DebugIdle
  /\ rules \in SeqsUpTo(PatchRules, MaxRules)
  /\ disk0 \in [Files -> Contents]
  /\ disk = disk0
  /\ task = [f \in Files |-> NoTask]
  /\ attempted = [f \in Files |-> 0]
  /\ written = [f \in Files |-> 0]

patchRest == <<vars, registryVars, discoveryVars, optimizerVars, treeVars, commandVars, poolVars, stringsVars, enginesVars, debugVars>>

PatchNext ==
  \/ \E f \in Files, ok \in BOOLEAN : ReadText(f, ok) /\ UNCHANGED patchRest
  \/ \E f \in Files : ApplyRule(f) /\ UNCHANGED patchRest
  \/ \E f \in Files, ok \in BOOLEAN : WriteBack(f, ok) /\ UNCHANGED patchRest

SpecPatch == PatchInit /\ [][PatchNext]_allVars

RECURSIVE Chained(_, _)
\* rule_n(...rule_2(rule_1(text))...) for the first n rules of the list
Chained(n, text) == IF n = 0 THEN text ELSE Sub(rules[n], Chained(n - 1, text))

\* the text _apply_patch_to_file read from f
TextRead(f) == Decode(disk0[f])

\* C19: the text a task holds after its first n rules is rule_n(...(rule_1(
\* text read from its own file))), and the text written to a file is that of
\* the whole list applied to the text read from that file; a file that was
\* not written holds what it held before.
C19_RulesChained ==
  \A f \in Files :
    /\ task[f].pc = "patching" => task[f].content = Chained(task[f].k - 1, TextRead(f))
    /\ written[f] >= 1 => disk[f] = Chained(Len(rules), TextRead(f))
    /\ written[f] = 0 => disk[f] = disk0[f]

\* with the rules ad -> nop, nop -> (nothing), the file holding x ad has
\* been rewritten to x while the task of the other file is under way
C19_Witness ==
  /\ rules = <<[pat |-> "ad", repl |-> <<"nop">>, bad |-> FALSE],
               [pat |-> "nop", repl |-> <<>>, bad |-> FALSE]>>
  /\ disk0["a.smali"] = <<"x", "ad">>
  /\ disk["a.smali"] = <<"x">>
  /\ task["b.smali"].pc = "patching"

\* C20: write_text is called at most once for a file, and it is called iff
\* every rule was applied and the resulting text differs from the text read;
\* the call returns 1 iff the file was written, and a file that was not
\* written holds what it held before.
C20_WriteIffChanged ==
  \A f \in Files :
    /\ attempted[f] <= 1
    /\ written[f] <= attempted[f]
    /\ task[f].pc # "done" => attempted[f] = 0
    /\ task[f].pc = "done" =>
         /\ attempted[f] = 1 <=>
              (task[f].k > Len(rules) /\ Chained(Len(rules), TextRead(f)) # TextRead(f))
         /\ task[f].result = 1 <=> written[f] = 1
    /\ written[f] = 0 => disk[f] = disk0[f]

\* with the rules ad -> nop, nop -> ad, the file holding nop ad has been
\* written and reported modified, the file holding ad has gone through both
\* rules, ends with the text it had, and was neither written nor reported
C20_Witness ==
  /\ rules = <<[pat |-> "ad", repl |-> <<"nop">>, bad |-> FALSE],
               [pat |-> "nop", repl |-> <<"ad">>, bad |-> FALSE]>>
  /\ disk0["a.smali"] = <<"nop", "ad">>
  /\ disk0["b.smali"] = <<"ad">>
  /\ task["a.smali"].pc = "done" /\ task["a.smali"].result = 1
  /\ written["a.smali"] = 1
  /\ task["b.smali"].pc = "done" /\ task["b.smali"].result = 0
  /\ task["b.smali"].k = 3
  /\ attempted["b.smali"] = 0

(* ===================== run_command (rvp/utils.py) ====================== *)

\* exit codes of the subprocess
ExitCodes == {0, 1, 2}

\* the calls: check, timeout (0 for None), and what the subprocess does
Calls ==
  [check : BOOLEAN, timeout : 0..MaxTimeout, spawnFails : BOOLEAN,
   duration : 0..MaxDuration, code : ExitCodes]

\* the exit-code test made whatever check is
Fails_IgnoreCheck(chk, rc) == rc # 0

\* `if check and retcode != 0`
Fails(chk, rc) == chk /\ rc # 0

\* the call leaves run_command with exception e
CommandRaises(e) ==
  /\ cpc' = "done"
  /\ outcome' = [exc |-> e, returncode |-> 0]

\* the call returns CompletedProcess(cmd, rc)
CommandReturns(rc) ==
  /\ cpc' = "done"
  /\ outcome' = [exc |-> NoExc, returncode |-> rc]

\* subprocess.Popen(cmd, ...): the process starts, or OSError is raised and
\* handled by `except (OSError, ValueError)`
Popen ==
  /\ cpc = "popen"
  /\ IF call.spawnFails
     THEN /\ IF call.check THEN CommandRaises("OSError") ELSE CommandReturns(1)
          /\ UNCHANGED <<proc, spawns>>
     ELSE /\ proc' = "running"
          /\ spawns' = spawns + 1
          /\ cpc' = "reading"
          /\ UNCHANGED outcome
  /\ UNCHANGED <<call, elapsed, retcode, kills>>

\* time passes while the subprocess runs
Tick ==
  /\ proc = "running" /\ elapsed < call.duration
  /\ elapsed' = elapsed + 1
  /\ UNCHANGED <<call, cpc, proc, retcode, outcome, spawns, kills>>

\* the subprocess exits
ProcExits ==
  /\ proc = "running" /\ elapsed = call.duration
  /\ proc' = "exited"
  /\ UNCHANGED <<call, cpc, elapsed, retcode, outcome, spawns, kills>>

\* `for line in proc.stdout`: reads until end of file, which comes when the
\* process exits or, if eof, when it closes its output before that
ReadOutput(eof) ==
  /\ cpc = "reading"
  /\ proc = "exited" \/ eof
  /\ cpc' = "exit"
  /\ UNCHANGED <<call, proc, elapsed, retcode, outcome, spawns, kills>>

\* end of the `with` block: Popen.__exit__ closes the pipe and calls
\* self.wait() with no timeout
PopenExit ==
  /\ cpc = "exit"
  /\ proc = "exited"
  /\ proc' = "reaped"
  /\ cpc' = "wait"
  /\ UNCHANGED <<call, elapsed, retcode, outcome, spawns, kills>>

\* retcode = proc.wait(timeout=timeout): the exit code if the process is
\* gone; TimeoutExpired, handled by kill, wait and re-raise, if it still runs
Wait ==
  /\ cpc = "wait"
  /\ IF proc = "reaped"
     THEN /\ retcode' = call.code
          /\ cpc' = "check"
          /\ UNCHANGED <<proc, outcome, kills>>
     ELSE /\ call.timeout # 0
          /\ kills' = kills + 1
          /\ proc' = "reaped"
          /\ CommandRaises("TimeoutExpired")
          /\ UNCHANGED retcode
  /\ UNCHANGED <<call, elapsed, spawns>>

\* `if check and retcode != 0: raise CalledProcessError(retcode, cmd)`, else
\* `return CompletedProcess(cmd, retcode)`
CheckRetcode ==
  /\ cpc = "check"
  /\ IF Fails(call.check, retcode)
     THEN CommandRaises("CalledProcessError")
     ELSE CommandReturns(retcode)
  /\ UNCHANGED <<call, proc, elapsed, retcode, spawns, kills>>

CommandInit ==
  /\ PipelineIdle /\ RegistryIdle /\ DiscoveryIdle /\ OptimizerIdle /\ TreeIdle /\ PatchIdle /\ PoolIdle /\ StringsIdle /\ EnginesIdle /\ DebugIdle
  /\ call \in Calls
  /\ cpc = "popen" /\ proc = "none" /\ elapsed = 0
  /\ retcode = 0 /\ outcome = NoOutcome /\ spawns = 0 /\ kills = 0

commandRest == <<vars, registryVars, discoveryVars, optimizerVars, treeVars, patchVars, poolVars, stringsVars, enginesVars, debugVars>>

CommandNext ==
  \/ Popen /\ UNCHANGED commandRest
  \/ Tick /\ UNCHANGED commandRest
  \/ ProcExits /\ UNCHANGED commandRest
  \/ \E eof \in BOOLEAN : ReadOutput(eof) /\ UNCHANGED commandRest
  \/ PopenExit /\ UNCHANGED commandRest
  \/ Wait /\ UNCHANGED commandRest
  \/ CheckRetcode /\ UNCHANGED commandRest

SpecCommand == CommandInit /\ [][CommandNext]_allVars

\* the call has returned or raised
CommandDone == cpc = "done"

\* the call as a whole gives back what the operator run_command computes
CommandAgrees ==
  CommandDone =>
    LET r == run_command(call.check, call.spawnFails,
                         call.timeout # 0 /\ call.duration > call.timeout, call.code)
    IN /\ outcome.exc = r.exc
       /\ r.exc = NoExc => outcome.returncode = r.returncode

\* C29: for a subprocess that started, a non-zero exit code raises
\* CalledProcessError when check is true and is returned as returncode, with
\* no exception, when check is false; exit code 0 returns returncode 0 with
\* no exception whatever check is.
C29_ExitCodeContract ==
  (CommandDone /\ ~call.spawnFails) =>
    /\ (call.check /\ call.code # 0) => outcome.exc = "CalledProcessError"
    /\ (~call.check /\ call.code # 0) =>
         outcome = [exc |-> NoExc, returncode |-> call.code]
    /\ call.code = 0 => outcome = [exc |-> NoExc, returncode |-> 0]

\* a call with check=False whose subprocess exited with code 2 has returned 2
C29_Witness ==
  /\ CommandDone /\ ~call.spawnFails /\ ~call.check /\ call.code = 2
  /\ outcome = [exc |-> NoExc, returncode |-> 2]

\* the subprocess of a call with a timeout ran for longer than the timeout
Outlived == ~call.spawnFails /\ call.timeout # 0 /\ elapsed > call.timeout

\* C30: a call whose subprocess was still running when its timeout had passed
\* ends with TimeoutExpired after exactly one kill, never with a normal
\* return, and the subprocess is started once.
C30_TimeoutRaises ==
  /\ spawns <= 1
  /\ (CommandDone /\ Outlived) =>
       /\ outcome.exc = "TimeoutExpired"
       /\ kills = 1
       /\ proc = "reaped"

(* ====================== patch_ads (rvp/optimizer.py) =================== *)

\* the contexts patch_ads is called with
PoolContexts ==
  {[current_apk |-> "in.apk", metadata |-> {}, options |-> {}],
   [current_apk |-> "out.apk", metadata |-> {"engine"}, options |-> {"patch_ads"}]}

\* the rules and file contents of the pool's runs
PoolRules ==
  {[pat |-> "ad", repl |-> <<"nop">>, bad |-> FALSE],
   [pat |-> "x", repl |-> <<"x">>, bad |-> FALSE],
   [pat |-> "ad", repl |-> <<"\\9">>, bad |-> TRUE]}

PoolContents == {<<"x">>, <<"x", "ad">>}

\* the lists rglob can give: every file of the tree once, in some order
FileLists ==
  {l \in SeqsUpTo(Files, Cardinality(Files)) :
     \A a, b \in 1..Len(l) : a # b => l[a] # l[b]}

\* the elements of a list
Elems(l) == {l[k] : k \in 1..Len(l)}

\* ctx.log that also records the message in the context's metadata
log_Metadata(ctx, msg) == [ctx EXCEPT !.metadata = @ \union {msg}]

\* Context.log(msg): logger.log(level, msg); the context is left as it is
log(ctx, msg) == ctx

\* every task submitted for the first file of the list
TaskFile_First(k) == smali_files[1]

\* the file of the k-th submitted task: `for smali_file in smali_files`
TaskFile(k) == smali_files[k]

\* a future whose result is taken without waiting for its task
Finished_Always(f) == TRUE

\* the task of f has returned: future.result() and the pool's shutdown wait
\* for this
Finished(f) == task[f].pc = "done"

\* a future that reports its file as modified whatever its task returned
FutureResult_One(f) == 1

\* future.result(): what _apply_patch_to_file returned
FutureResult(f) == task[f].result

\* the except block that logs nothing
TaskLog_Silent(f, e) == {}

\* `ctx.log(f"optimizer: Error patching {file_path.name}: {e}")` when the
\* task caught e
TaskLog(f, e) == IF e = NoExc THEN {} ELSE {<<"Error patching", f>>}

\* tasks the pool's threads are running
Running == {f \in Files : task[f].pc = "patching"}

\* what a step of the task of f does besides the step itself: e is the
\* exception the step raised, if any, which the except block logs
TaskEffect(f, e) ==
  /\ ppc \in {"submit", "collect"}
  /\ f \in Elems(futures)
  /\ caught' = IF e = NoExc THEN caught ELSE [caught EXCEPT ![f] = e]
  /\ emitted' = emitted \union TaskLog(f, e)
  /\ pctx' = IF e = NoExc THEN pctx ELSE log(pctx, <<"Error patching", f>>)
  /\ UNCHANGED <<pctx0, ppc, smali_files, nworkers, futures, collected,
                 total_patched, submits, adds>>

\* smali_files = list(decompiled_dir.rglob("*.smali")); return if it is empty
ListFiles ==
  /\ ppc = "start"
  /\ emitted' = emitted \union
       (IF smali_files = <<>> THEN {<<"No smali files found">>} ELSE {<<"Scanning">>})
  /\ pctx' = log(pctx, <<"Scanning">>)
  /\ ppc' = IF smali_files = <<>> THEN "returned" ELSE "submit"
  /\ UNCHANGED <<pctx0, smali_files, nworkers, futures, collected, total_patched,
                 submits, adds, caught>>

\* futures.append(executor.submit(_apply_patch_to_file, smali_file, ...))
Submit ==
  /\ ppc = "submit"
  /\ LET f == TaskFile(Len(futures) + 1)
     IN /\ futures' = Append(futures, f)
        /\ submits' = [submits EXCEPT ![f] = @ + 1]
  /\ ppc' = IF Len(futures') = Len(smali_files) THEN "collect" ELSE "submit"
  /\ UNCHANGED <<pctx, pctx0, emitted, smali_files, nworkers, collected,
                 total_patched, adds, caught>>

\* a free thread of the pool starts the task of f
StartTask(f, ok) ==
  /\ Cardinality(Running) < nworkers
  /\ ReadText(f, ok)
  /\ TaskEffect(f, IF ok THEN NoExc ELSE "OSError")

\* the task of f applies its next rule
RunRule(f) ==
  /\ ApplyRule(f)
  /\ TaskEffect(f, IF rules[task[f].k].bad THEN "re.error" ELSE NoExc)

\* the task of f ends
FinishTask(f, ok) ==
  /\ WriteBack(f, ok)
  /\ TaskEffect(f, IF ok THEN NoExc ELSE "OSError")

\* total_patched += future.result() for the next future of the list
Collect ==
  /\ ppc = "collect"
  /\ collected < Len(futures)
  /\ LET f == futures[collected + 1]
     IN /\ Finished(f)
        /\ total_patched' = total_patched + FutureResult(f)
        /\ adds' = [adds EXCEPT ![f] = @ + 1]
  /\ collected' = collected + 1
  /\ UNCHANGED <<pctx, pctx0, emitted, ppc, smali_files, nworkers, futures,
                 submits, caught>>

\* end of the `with ThreadPoolExecutor()` block, shutdown(wait=True), then
\* the completion message
PoolReturn ==
  /\ ppc = "collect"
  /\ collected = Len(futures)
  /\ \A f \in Elems(futures) : Finished(f)
  /\ emitted' = emitted \union {<<"Ad patching complete", total_patched>>}
  /\ pctx' = log(pctx, <<"Ad patching complete", total_patched>>)
  /\ ppc' = "returned"
  /\ UNCHANGED <<pctx0, smali_files, nworkers, futures, collected, total_patched,
                 submits, adds, caught>>

PoolInit ==
  /\ PipelineIdle /\ RegistryIdle /\ DiscoveryIdle /\ OptimizerIdle /\ TreeIdle /\ CommandIdle /\ StringsIdle /\ EnginesIdle /\ DebugIdle
  /\ rules \in SeqsUpTo(PoolRules, MaxRules)
  /\ disk0 \in [Files -> PoolContents]
  /\ disk = disk0
  /\ task = [f \in Files |-> NoTask]
  /\ attempted = [f \in Files |-> 0]
  /\ written = [f \in Files |-> 0]
  /\ pctx \in PoolContexts /\ pctx0 = pctx
  /\ emitted = {}
  /\ ppc = "start"
  /\ smali_files \in FileLists
  /\ nworkers \in 1..MaxWorkers
  /\ futures = <<>> /\ collected = 0 /\ total_patched = 0
  /\ submits = [f \in Files |-> 0] /\ adds = [f \in Files |-> 0]
  /\ caught = [f \in Files |-> NoExc]

poolRest == <<vars, registryVars, discoveryVars, optimizerVars, treeVars, commandVars, stringsVars, enginesVars, debugVars>>

PoolNext ==
  \/ ListFiles /\ UNCHANGED <<poolRest, patchVars>>
  \/ Submit /\ UNCHANGED <<poolRest, patchVars>>
  \/ \E f \in Files, ok \in BOOLEAN : StartTask(f, ok) /\ UNCHANGED poolRest
  \/ \E f \in Files : RunRule(f) /\ UNCHANGED poolRest
  \/ \E f \in Files, ok \in BOOLEAN : FinishTask(f, ok) /\ UNCHANGED poolRest
  \/ Collect /\ UNCHANGED <<poolRest, patchVars>>
  \/ PoolReturn /\ UNCHANGED <<poolRest, patchVars>>

SpecPool == PoolInit /\ [][PoolNext]_allVars

\* the threads of the pool are scheduled: a step that can be taken is taken
SpecPoolFair == PoolInit /\ [][PoolNext]_allVars /\ WF_allVars(PoolNext)

\* patch_ads has returned
PoolReturned == ppc = "returned"

\* a read or a write of some task raised OSError
IoFailed == \E f \in Files : caught[f] = "OSError"

\* the content a file holding c has after the rule list was applied to it:
\* a function of c and the rule list alone
PatchedText(c) ==
  IF \E k \in 1..Len(rules) : rules[k].bad THEN c
  ELSE LET t == Chained(Len(rules), Decode(c))
       IN IF t # Decode(c) THEN t ELSE c

\* the files of the tree the rule list changes
Changes == {f \in Elems(smali_files) : PatchedText(disk0[f]) # disk0[f]}

\* C21: when patch_ads has returned and no read or write failed, every
\* file of the tree holds PatchedText of what it held, and the counter is the
\* number of files PatchedText changes: both are determined by the contents
\* and the rule list, whatever the number of threads, the order of the file
\* list and the interleaving of the tasks.
C21_Deterministic ==
  (PoolReturned /\ ~IoFailed) =>
    /\ \A f \in Elems(smali_files) : disk[f] = PatchedText(disk0[f])
    /\ \A f \in Files \ Elems(smali_files) : disk[f] = disk0[f]
    /\ total_patched = Cardinality(Changes)

\* a pool of two threads, given b.smali before a.smali, has returned after
\* rewriting both files with the rule ad -> nop
C21_Witness ==
  /\ PoolReturned /\ ~IoFailed
  /\ nworkers = 2
  /\ smali_files = <<"b.smali", "a.smali">>
  /\ rules = <<[pat |-> "ad", repl |-> <<"nop">>, bad |-> FALSE]>>
  /\ disk0 = [f \in Files |-> <<"x", "ad">>]
  /\ disk = [f \in Files |-> <<"x", "nop">>]
  /\ total_patched = 2

\* what holds of a task whose except block caught an exception, and of the
\* other tasks once patch_ads has returned
FailureIsolated ==
  /\ \A f \in Files :
       caught[f] # NoExc =>
         /\ task[f].pc = "done" /\ task[f].result = 0
         /\ <<"Error patching", f>> \in emitted
         /\ disk[f] = disk0[f]
  /\ PoolReturned =>
       \A f \in Elems(smali_files) :
         /\ task[f].pc = "done"
         /\ caught[f] = NoExc =>
              /\ disk[f] = PatchedText(disk0[f])
              /\ task[f].result = IF disk[f] # disk0[f] THEN 1 ELSE 0

\* C22: a task whose read, substitution or write raised has logged the
\* error, returned 0 and left its file as it was; when patch_ads has
\* returned every file of the list has been processed, the ones that did not
\* fail with the result they have without the failure; and patch_ads always
\* returns.
C22_FailureIsolation == []FailureIsolated /\ <>PoolReturned

\* patch_ads has returned after the read of a.smali failed and b.smali was
\* rewritten and counted
C22_Witness ==
  /\ PoolReturned
  /\ smali_files = <<"a.smali", "b.smali">>
  /\ caught["a.smali"] = "OSError" /\ attempted["a.smali"] = 0
  /\ disk0["a.smali"] = <<"x", "ad">>
  /\ written["b.smali"] = 1
  /\ total_patched = 1

\* C23: every file of the list is submitted once and no other file is, the
\* result of a task is added to the counter at most once, and when patch_ads
\* has returned every result has been added once and the counter is the
\* number of files whose content differs from what it was.
C23_AggregateCount ==
  /\ \A f \in Files : submits[f] <= 1 /\ adds[f] <= submits[f]
  /\ \A a, b \in 1..Len(futures) : a # b => futures[a] # futures[b]
  /\ Elems(futures) \subseteq Elems(smali_files)
  /\ PoolReturned =>
       /\ \A f \in Files :
            /\ submits[f] = IF f \in Elems(smali_files) THEN 1 ELSE 0
            /\ adds[f] = submits[f]
       /\ total_patched = Cardinality({f \in Files : disk[f] # disk0[f]})

\* patch_ads has returned with a count of 1: of two files submitted, one was
\* rewritten and the other went through the rules unchanged
C23_Witness ==
  /\ PoolReturned
  /\ Len(futures) = 2
  /\ \A f \in Files : caught[f] = NoExc /\ adds[f] = 1
  /\ disk["a.smali"] # disk0["a.smali"]
  /\ disk["b.smali"] = disk0["b.smali"]
  /\ total_patched = 1

\* C24: the Context passed to patch_ads has, in every state of the call, the
\* current_apk, metadata and options it was called with.
C24_ContextUntouched == pctx = pctx0

\* patch_ads has returned with its context as it was, after one task logged
\* a failure and another task rewrote its file
C24_Witness ==
  /\ PoolReturned
  /\ pctx = pctx0 /\ pctx.metadata = {"engine"}
  /\ \E f \in Files : caught[f] = "re.error" \/ caught[f] = "OSError"
  /\ \E f \in Files : <<"Error patching", f>> \in emitted
  /\ \E f \in Files : written[f] = 1

\* C25: when patch_ads has returned, every task it submitted has returned,
\* the failed ones included, no task is running, and from then on no file
\* and no task changes.
C25_NoOverlap ==
  /\ [](PoolReturned =>
          /\ Running = {}
          /\ Len(futures) = Len(smali_files) /\ collected = Len(futures)
          /\ \A f \in Elems(smali_files) : task[f].pc = "done")
  /\ [][PoolReturned => (disk' = disk /\ task' = task)]_allVars

\* patch_ads has returned with two tasks ended, one of them by a failed write
C25_Witness ==
  /\ PoolReturned
  /\ Len(smali_files) = 2
  /\ \A f \in Files : task[f].pc = "done"
  /\ \E f \in Files : caught[f] = "OSError" /\ attempted[f] = 1

(* ================ string_cleaner (rvp/engines/string_cleaner.py) ======= *)

\* a strings.xml file is a sequence of lines, a line the sequence of the
\* <string> declarations that start on it. The form of a declaration:
\* "closed"  <string name="k">v</string> on one line,
\* "empty"   <string name="k"/>,
\* "open"    <string name="k">v, the value going on to the next line
Decl(k, form) == [name |-> k, form |-> form]

StringsContents ==
  {<<>>,
   << <<Decl("app_name", "closed")>> >>,
   << <<Decl("app_name", "closed")>>, <<Decl("unused_banner", "closed")>> >>,
   << <<Decl("unused_banner", "empty")>>, <<Decl("title", "closed")>> >>,
   << <<Decl("unused_banner", "empty"), Decl("app_name", "closed")>> >>,
   << <<Decl("title", "closed"), Decl("unused_banner", "closed")>> >>,
   << <<Decl("unused_banner", "open")>>, <<Decl("title", "closed")>> >>}

\* the contents of the other files: the string keys they mention and how
Ref(form, k) == [form |-> form, key |-> k]

SourceContents ==
  {{},
   {Ref("@string", "title")},
   {Ref("R.string", "app_name")},
   {Ref("R.string", "unused_banner"), Ref("getString", "title")}}

\* the contents of the smali file
SmaliContents ==
  {{}, {Ref("R.string", "unused_banner"), Ref("getString", "title")}}

\* what the files outside the reference scan hold
UnscannedContents ==
  [p \in {"res/drawable/icon.xml", "assets/notes.txt"} |->
     IF p = "res/drawable/icon.xml" THEN {Ref("@string", "title")}
     ELSE {Ref("R.string", "title")}]

\* path.suffix, path.parent.name and path.name
Suffix(p) ==
  CASE p = "smali/A.smali" -> ".smali"
    [] p = "assets/notes.txt" -> ".txt"
    [] OTHER -> ".xml"

ParentName(p) ==
  CASE p = "res/values/strings.xml" -> "values"
    [] p = "res/values-de/strings.xml" -> "values-de"
    [] p = "res/layout/main.xml" -> "layout"
    [] p = "smali/A.smali" -> "smali"
    [] p = "res/drawable/icon.xml" -> "drawable"
    [] OTHER -> "assets"

FileName(p) ==
  CASE p \in StringsPaths -> "strings.xml"
    [] p = "res/layout/main.xml" -> "main.xml"
    [] p = "smali/A.smali" -> "A.smali"
    [] p = "res/drawable/icon.xml" -> "icon.xml"
    [] OTHER -> "notes.txt"

\* reserved = {"app_name", "app_name_suffixed"}
reserved == {"app_name", "app_name_suffixed"}

\* the condition of the source_files comprehension
IsSource(p) ==
  /\ Suffix(p) \in {".xml", ".smali"}
  /\ ParentName(p) # "drawable"
  /\ FileName(p) # "strings.xml"

\* _STRING_DEF_PATTERN.finditer: the name of every <string name="..."
_extract_string_names(content) ==
  {content[l][d].name : <<l, d>> \in
     {ld \in (DOMAIN content) \X (1..2) : ld[2] \in DOMAIN content[ld[1]]}}

\* the scan that knows only the R.string form
_find_string_references_NoXml(content) ==
  {t.key : t \in {u \in content : u.form = "R.string"}}

\* _R_STRING_PATTERN and _XML_STRING_PATTERN over the content
_find_string_references(content) ==
  {t.key : t \in {u \in content : u.form = "R.string"}}
    \union {t.key : t \in {u \in content : u.form = "@string"}}

\* _XML_CLEANUP_PATTERN on one line: the pattern is anchored at the start of
\* the line, takes the opening tag up to its first `>` and then the shortest
\* text of the line that ends in </string>; the match is replaced by nothing
\* when its first name is unused. What is left of the line:
CleanLine(line, unused) ==
  IF line = <<>> \/ line[1].name \notin unused THEN line
  ELSE IF line[1].form = "closed" THEN Tail(line)
  ELSE IF line[1].form = "empty" /\ Len(line) >= 2 /\ line[2].form = "closed"
    THEN Tail(Tail(line))
  ELSE line

RECURSIVE _clean_xml_content(_, _)
\* _XML_CLEANUP_PATTERN.sub(replacer, content): a line whose match took all
\* of it goes with its newline
_clean_xml_content(content, unused) ==
  IF content = <<>> THEN <<>>
  ELSE LET line == CleanLine(Head(content), unused)
       IN (IF line = <<>> THEN <<>> ELSE <<line>>)
            \o _clean_xml_content(Tail(content), unused)

\* names the usage map marks unused
UnusedOf(m) == {k \in DOMAIN m : ~m[k].is_used}

\* _analyze_apk_strings starts: strings_files = rglob("strings.xml")
AnalyzeStart ==
  /\ spc = "start"
  /\ all_strings' = {} /\ used_strings' = {}
  /\ string_locations' = <<>>
  /\ stodo' = StringsPaths
  /\ spc' = "defs"
  /\ UNCHANGED <<sfiles0, sfiles, sources, spass, usage_map, usage1, sfailed>>

\* one iteration of the loop over strings_files
ReadStrings(p, ok) ==
  /\ spc = "defs" /\ p \in stodo
  /\ stodo' = stodo \ {p}
  /\ IF ok
     THEN LET file_strings == _extract_string_names(sfiles[p])
          IN /\ all_strings' = all_strings \union file_strings
             /\ string_locations' =
                  [k \in DOMAIN string_locations \union file_strings |->
                     (IF k \in DOMAIN string_locations THEN string_locations[k] ELSE {})
                       \union (IF k \in file_strings THEN {p} ELSE {})]
             /\ UNCHANGED sfailed
     ELSE /\ sfailed' = sfailed \union {p}
          /\ UNCHANGED <<all_strings, string_locations>>
  /\ UNCHANGED <<sfiles0, sfiles, sources, spc, spass, used_strings, usage_map, usage1>>

\* source_files = [path for path in rglob("*") if ...]
ListSources ==
  /\ spc = "defs" /\ stodo = {}
  /\ stodo' = {p \in StringsPaths \union OtherPaths : IsSource(p)}
  /\ spc' = "refs"
  /\ UNCHANGED <<sfiles0, sfiles, sources, spass, all_strings, used_strings,
                 string_locations, usage_map, usage1, sfailed>>

\* one iteration of the loop over source_files
ScanSource(p, ok) ==
  /\ spc = "refs" /\ p \in stodo
  /\ stodo' = stodo \ {p}
  /\ IF ok
     THEN /\ used_strings' = used_strings \union _find_string_references(sources[p])
          /\ UNCHANGED sfailed
     ELSE /\ sfailed' = sfailed \union {p}
          /\ UNCHANGED used_strings
  /\ UNCHANGED <<sfiles0, sfiles, sources, spc, spass, all_strings, string_locations,
                 usage_map, usage1>>

\* used_strings.update(reserved), the usage map, and the return
BuildMap ==
  /\ spc = "refs" /\ stodo = {}
  /\ used_strings' = used_strings \union reserved
  /\ usage_map' = [k \in all_strings |->
                     [is_used |-> k \in used_strings',
                      locations |-> string_locations[k]]]
  /\ usage1' = IF spass = 1 THEN usage_map' ELSE usage1
  /\ spc' = IF spass = 1 THEN "analyzed" ELSE "done"
  /\ UNCHANGED <<sfiles0, sfiles, sources, spass, stodo, all_strings,
                 string_locations, sfailed>>

\* _remove_unused_strings starts: return if nothing is unused, else collect
\* all_locations
RemoveStart ==
  /\ spc = "analyzed"
  /\ stodo' = UNION {usage_map[k].locations : k \in UnusedOf(usage_map)}
  /\ spc' = "removing"
  /\ UNCHANGED <<sfiles0, sfiles, sources, spass, all_strings, used_strings,
                 string_locations, usage_map, usage1, sfailed>>

\* one iteration of the loop over all_locations: read, clean, and write the
\* file if it has fewer lines than before
CleanFile(p, okRead, okWrite) ==
  /\ spc = "removing" /\ p \in stodo
  /\ stodo' = stodo \ {p}
  /\ LET content == _clean_xml_content(sfiles[p], UnusedOf(usage_map))
         removed_lines == Len(sfiles[p]) - Len(content)
     IN IF ~okRead
        THEN /\ okWrite
             /\ sfailed' = sfailed \union {p}
             /\ UNCHANGED sfiles
        ELSE IF removed_lines > 0
        THEN IF okWrite
             THEN /\ sfiles' = [sfiles EXCEPT ![p] = content]
                  /\ UNCHANGED sfailed
             ELSE /\ sfailed' = sfailed \union {p}
                  /\ UNCHANGED sfiles
        ELSE /\ okWrite
             /\ UNCHANGED <<sfiles, sfailed>>
  /\ UNCHANGED <<sfiles0, sources, spc, spass, all_strings, used_strings,
                 string_locations, usage_map, usage1>>

\* the tree is analyzed again
Reanalyze ==
  /\ spc = "removing" /\ stodo = {}
  /\ spass = 1
  /\ spass' = 2
  /\ spc' = "start"
  /\ UNCHANGED <<sfiles0, sfiles, sources, stodo, all_strings, used_strings,
                 string_locations, usage_map, usage1, sfailed>>

StringsInit ==
  /\ PipelineIdle /\ RegistryIdle /\ DiscoveryIdle /\ OptimizerIdle /\ TreeIdle /\ PatchIdle /\ CommandIdle /\ PoolIdle /\ EnginesIdle /\ DebugIdle
  /\ sfiles0 \in [StringsPaths -> StringsContents]
  /\ sfiles = sfiles0
  /\ \E m \in SourceContents, a \in SmaliContents :
       sources = [p \in OtherPaths |->
                    IF p = "res/layout/main.xml" THEN m
                    ELSE IF p = "smali/A.smali" THEN a
                    ELSE UnscannedContents[p]]
  /\ spc = "start" /\ spass = 1 /\ stodo = {}
  /\ all_strings = {} /\ used_strings = {}
  /\ string_locations = <<>>
  /\ usage_map = <<>> /\ usage1 = <<>>
  /\ sfailed = {}

stringsRest == <<vars, registryVars, discoveryVars, optimizerVars, treeVars, patchVars, commandVars, poolVars, enginesVars, debugVars>>

StringsNext ==
  \/ AnalyzeStart /\ UNCHANGED stringsRest
  \/ \E p \in StringsPaths, ok \in BOOLEAN : ReadStrings(p, ok) /\ UNCHANGED stringsRest
  \/ ListSources /\ UNCHANGED stringsRest
  \/ \E p \in OtherPaths, ok \in BOOLEAN : ScanSource(p, ok) /\ UNCHANGED stringsRest
  \/ BuildMap /\ UNCHANGED stringsRest
  \/ RemoveStart /\ UNCHANGED stringsRest
  \/ \E p \in StringsPaths, okRead, okWrite \in BOOLEAN :
       CleanFile(p, okRead, okWrite) /\ UNCHANGED stringsRest
  \/ Reanalyze /\ UNCHANGED stringsRest

SpecStrings == StringsInit /\ [][StringsNext]_allVars

\* the keys the strings.xml files that were read declare, and the files
\* that declare a key
DeclaredIn(files, p) ==
  {k \in {"app_name", "unused_banner", "title"} :
     \E l \in DOMAIN files[p] : \E d \in DOMAIN files[p][l] : files[p][l][d].name = k}

DeclaredKeys == UNION {DeclaredIn(sfiles, p) : p \in StringsPaths \ sfailed}

\* the keys the scanned files that were read refer to
ReferencedKeys ==
  {k \in {"app_name", "unused_banner", "title"} :
     \E p \in {"res/layout/main.xml", "smali/A.smali"} \ sfailed :
       Ref("R.string", k) \in sources[p] \/ Ref("@string", k) \in sources[p]}

\* C26: the usage map an analysis returns has one record per declared key,
\* the record of a key is marked used iff the key is referenced or reserved,
\* so the unused keys are the declared keys that are neither, and the
\* record's locations are the files that declare the key.
C26_Classification ==
  (spc = "analyzed" \/ (spc = "done" /\ sfailed = {})) =>
    LET used == ReferencedKeys \union {"app_name", "app_name_suffixed"}
    IN /\ DOMAIN usage_map = DeclaredKeys
       /\ \A k \in DeclaredKeys :
            /\ usage_map[k].is_used <=> k \in used
            /\ usage_map[k].locations =
                 {p \in StringsPaths \ sfailed : k \in DeclaredIn(sfiles, p)}
       /\ UnusedOf(usage_map) = DeclaredKeys \ used

\* a resource file declares app_name and unused_banner, the layout refers to
\* R.string.app_name only, and the analysis reports unused_banner as the one
\* unused key
C26_Witness ==
  /\ spc = "analyzed" /\ sfailed = {}
  /\ sfiles0["res/values/strings.xml"] =
       << <<Decl("app_name", "closed")>>, <<Decl("unused_banner", "closed")>> >>
  /\ sfiles0["res/values-de/strings.xml"] = <<>>
  /\ sources["res/layout/main.xml"] = {Ref("R.string", "app_name")}
  /\ sources["smali/A.smali"] = {}
  /\ DOMAIN usage_map = {"app_name", "unused_banner"}
  /\ UnusedOf(usage_map) = {"unused_banner"}

\* C27: when the unused keys of the first analysis have been removed and the
\* tree analyzed again, with no read or write failing, the declared keys are
\* those of the first analysis less its unused keys, and no key is unused.
C27_FixedPoint ==
  (spc = "done" /\ sfailed = {}) =>
    /\ DOMAIN usage_map = DOMAIN usage1 \ UnusedOf(usage1)
    /\ UnusedOf(usage_map) = {}

\* C28: a reserved key that is declared is marked used by every analysis,
\* and a file that declared a reserved key before the removal declares it
\* after the removal.
C28_ReservedKept ==
  /\ \A k \in {"app_name", "app_name_suffixed"} :
       k \in DOMAIN usage_map => usage_map[k].is_used
  /\ \A p \in StringsPaths : \A k \in {"app_name", "app_name_suffixed"} :
       k \in DeclaredIn(sfiles0, p) => k \in DeclaredIn(sfiles, p)

(* ============ timeouts of the optimizer's tools (rvp/optimizer.py) ===== *)

\* the timeout argument of the run_command call of a tool stage, 0 for None:
\* decompile_apk, recompile_apk and zipalign_apk call run_command(cmd, ctx)
StageTimeout(st) ==
  CASE st = "decompile_apk" -> 0
    [] st = "recompile_apk" -> 0
    [] st = "zipalign_apk" -> 0
    [] OTHER -> 0

\* C31: every tool stage that has run its tool gave run_command a timeout
\* (a number of seconds, not None).
C31_ToolsBounded ==
  \A st \in ToolStages : ran[st] > 0 => StageTimeout(st) # 0

(* ---------------- the engines' run() on one Context -------------------- *)

\* m[k] = v on a dict
Put(m, k, v) == [x \in DOMAIN m \cup {k} |-> IF x = k THEN v ELSE m[x]]

\* `if key not in ctx.metadata: ctx.metadata[key] = {}`
InitAbsent(m, k) == IF k \in DOMAIN m THEN m ELSE Put(m, k, {})

\* ctx.metadata[key][f] = ... for every f of fields, on an entry that exists
AddFields(m, k, fields) == Put(m, k, m[k] \cup fields)

\* engine e has assigned to key k
Wrote(w, k, e) == Put(w, k, (IF k \in DOMAIN w THEN w[k] ELSE {}) \cup {e})

\* the fields of the dict the optimizer engine stores at line 340
OptimizerFields ==
  {"original_size", "operations_performed", "final_size",
   "size_reduction_bytes", "size_reduction_percentage"}

\* the fields of the dict string_cleaner stores at line 253
AnalysisFields == {"total_strings", "unused_strings", "unused_names"}

\* the output path an engine derives from the apk it was handed
Derived(apk, tag) == Append(apk, tag)

\* _extract_apk_structure / _extract_apk: True unless opening or extracting
\* the archive raised, which a missing archive always does
_extract_apk(apk, files, ok) == ok /\ apk \in files

\* _repack_apk_optimized returning True although writing the archive raised
_repack_apk_optimized_AlwaysTrue(out, files, ok, partial) ==
  [ok |-> TRUE, files |-> IF ok \/ partial THEN files \cup {out} ELSE files]

\* _repack_apk_optimized / _repackage_apk: ZipFile(out, "w") and the writes;
\* ok = nothing raised, partial = the archive was created before the failure
_repack_apk_optimized(out, files, ok, partial) ==
  [ok |-> ok, files |-> IF ok \/ partial THEN files \cup {out} ELSE files]

\* removal running whenever keys are unused, whatever the flag says
ShouldRemove_IgnoreFlag(opts, analysis) ==
  analysis = "some_unused"

\* `if remove_strings and unused_strings` at string_cleaner.py line 269
ShouldRemove(opts, analysis) ==
  "remove_unused_strings" \in opts /\ analysis = "some_unused"

\* run() has returned or raised: the record kept of it (note = what the
\* analysis found, for string_cleaner), and the pipeline moving on to the
\* next engine or aborting
Leave(e, case, note, exc, after) ==
  /\ elog' = Append(elog, [engine |-> e, case |-> case, note |-> note, exc |-> exc,
                           before |-> ecur, after |-> after])
  /\ ecur' = after
  /\ epc' = IF exc = NoExc THEN "idle" ELSE "aborted"
  /\ ek' = ek + 1

\* the engine the pipeline is about to call
AtEngine(e) == epc = "idle" /\ ek \in 1..Len(equeue) /\ equeue[ek] = e

(* engines/optimizer.py run(): made = work_dir.mkdir did not raise,
   extracted / repacked / partial are what the archive operations did *)
optimizer_run(made, extracted, repacked, partial) ==
  /\ AtEngine("optimizer")
  /\ IF "optimize_general" \notin eopts
       THEN /\ Leave("optimizer", "disabled", "", NoExc, ecur)
            /\ UNCHANGED <<efs, emeta, ewriters>>
     ELSE IF ~made
       THEN /\ Leave("optimizer", "mkdir_raised", "", "OSError", ecur)
            /\ UNCHANGED <<efs, emeta, ewriters>>
     ELSE IF ~_extract_apk(ecur, efs, extracted)
       THEN /\ Leave("optimizer", "extract_failed", "", NoExc, ecur)
            /\ UNCHANGED <<efs, emeta, ewriters>>
     ELSE LET out == Derived(ecur, "optimized")
              r == _repack_apk_optimized(out, efs, repacked, partial)
              s == set_current_apk(ecur, out, r.files)
              m1 == InitAbsent(emeta, "optimizer")
              case == IF repacked THEN "repacked" ELSE "repack_failed"
          IN /\ efs' = r.files
             /\ ewriters' = Wrote(ewriters, "optimizer", "optimizer")
             /\ IF r.ok
                  THEN /\ emeta' = IF s.exc = NoExc
                                     THEN Put(m1, "optimizer", OptimizerFields)
                                     ELSE m1
                       /\ Leave("optimizer", case, "", s.exc, s.current)
                  ELSE /\ emeta' = m1
                       /\ Leave("optimizer", case, "", NoExc, ecur)
  /\ UNCHANGED <<eopts, equeue>>

(* engines/media_optimizer.py run(): made = work_dir.mkdir did not raise,
   pruned = _filter_dpi_resources's rmtree did not raise *)
media_optimizer_run(made, extracted, pruned, repacked, partial) ==
  /\ AtEngine("media_optimizer")
  /\ IF eopts \cap EngineOptions("media_optimizer") = {}
       THEN /\ Leave("media_optimizer", "disabled", "", NoExc, ecur)
            /\ UNCHANGED <<efs, emeta, ewriters>>
     ELSE IF ~made
       THEN /\ Leave("media_optimizer", "mkdir_raised", "", "OSError", ecur)
            /\ UNCHANGED <<efs, emeta, ewriters>>
     ELSE IF ~_extract_apk(ecur, efs, extracted)
       THEN /\ Leave("media_optimizer", "extract_failed", "", NoExc, ecur)
            /\ UNCHANGED <<efs, emeta, ewriters>>
     ELSE LET out == Derived(ecur, "optimized")
              r == _repack_apk_optimized(out, efs, repacked, partial)
              s == set_current_apk(ecur, out, r.files)
              m1 == InitAbsent(emeta, "media_optimizer")
              m2 == AddFields(m1, "media_optimizer",
                      (IF "optimize_images" \in eopts THEN {"images"} ELSE {})
                      \cup (IF "optimize_audio" \in eopts THEN {"audio"} ELSE {}))
              m3 == IF "target_dpi" \in eopts
                      THEN AddFields(m2, "media_optimizer", {"dpi_folders_removed"})
                      ELSE m2
              case == IF repacked THEN "repacked" ELSE "repack_failed"
          IN /\ ewriters' = Wrote(ewriters, "media_optimizer", "media_optimizer")
             /\ IF "target_dpi" \in eopts /\ ~pruned
                  THEN /\ emeta' = m2
                       /\ efs' = efs
                       /\ Leave("media_optimizer", "filter_raised", "", "OSError", ecur)
                ELSE IF r.ok
                  THEN /\ efs' = r.files
                       /\ emeta' = IF s.exc = NoExc
                                     THEN AddFields(m3, "media_optimizer", {"size_reduction"})
                                     ELSE m3
                       /\ Leave("media_optimizer", case, "", s.exc, s.current)
                  ELSE /\ efs' = r.files
                       /\ emeta' = m3
                       /\ Leave("media_optimizer", case, "", NoExc, ecur)
  /\ UNCHANGED <<eopts, equeue>>

(* engines/dtlx.py run(): reported = _run_dtlx_analyze returned True,
   copied = the copy into the work directory did not raise, optimized =
   _run_dtlx_optimize returned True *)
dtlx_run(reported, copied, optimized) ==
  /\ AtEngine("dtlx")
  /\ IF eopts \cap EngineOptions("dtlx") = {}
       THEN /\ Leave("dtlx", "disabled", "", NoExc, ecur)
            /\ UNCHANGED <<efs, emeta, ewriters>>
     ELSE LET out == Derived(ecur, "dtlx-optimized")
              m1 == InitAbsent(emeta, "dtlx")
              m2 == IF "dtlx_analyze" \in eopts /\ reported
                      THEN AddFields(m1, "dtlx", {"report"}) ELSE m1
              m3 == AddFields(m2, "dtlx", {"flags_used"})
              files == efs \cup {out}
              s == set_current_apk(ecur, out, files)
          IN /\ ewriters' = Wrote(ewriters, "dtlx", "dtlx")
             /\ IF "dtlx_optimize" \notin eopts
                  THEN /\ emeta' = m2 /\ efs' = efs
                       /\ Leave("dtlx", "analyzed", "", NoExc, ecur)
                ELSE IF ~copied \/ ecur \notin efs
                  THEN /\ emeta' = m3 /\ efs' = efs
                       /\ Leave("dtlx", "copy_raised", "", "OSError", ecur)
                ELSE IF ~optimized
                  THEN /\ emeta' = m3 /\ efs' = efs
                       /\ Leave("dtlx", "optimize_failed", "", NoExc, ecur)
                ELSE /\ emeta' = AddFields(m3, "dtlx", {"optimized_apk"})
                     /\ efs' = files
                     /\ Leave("dtlx", "optimized", "", s.exc, s.current)
  /\ UNCHANGED <<eopts, equeue>>

(* engines/string_cleaner.py run(): made = work_dir.mkdir did not raise,
   decompiled / recompiled / aligned = the tool did not raise, analysis =
   what _analyze_apk_strings returned, exists = cleaned_apk.exists() *)
string_cleaner_run(made, decompiled, analysis, recompiled, aligned, exists) ==
  /\ AtEngine("string_cleaner")
  /\ IF "clean_unused_strings" \notin eopts
       THEN /\ Leave("string_cleaner", "disabled", analysis, NoExc, ecur)
            /\ UNCHANGED <<efs, emeta, ewriters>>
     ELSE IF ~made
       THEN /\ Leave("string_cleaner", "mkdir_raised", analysis, "OSError", ecur)
            /\ UNCHANGED <<efs, emeta, ewriters>>
     ELSE IF ~decompiled \/ ecur \notin efs
       THEN /\ Leave("string_cleaner", "decompile_failed", analysis, NoExc, ecur)
            /\ UNCHANGED <<efs, emeta, ewriters>>
     ELSE IF analysis = "empty"
       THEN /\ Leave("string_cleaner", "no_strings", analysis, NoExc, ecur)
            /\ UNCHANGED <<efs, emeta, ewriters>>
     ELSE LET out == Derived(ecur, "cleaned")
              m1 == Put(emeta, "string_cleaner", AnalysisFields)
              files == IF exists THEN efs \cup {out} ELSE efs
              s == set_current_apk(ecur, out, files)
          IN /\ ewriters' = Wrote(ewriters, "string_cleaner", "string_cleaner")
             /\ IF ~ShouldRemove(eopts, analysis)
                  THEN /\ emeta' = m1 /\ efs' = efs
                       /\ Leave("string_cleaner",
                                IF "remove_unused_strings" \notin eopts
                                  THEN "analysis_only" ELSE "nothing_unused",
                                analysis, NoExc, ecur)
                ELSE IF ~recompiled
                  THEN /\ emeta' = m1 /\ efs' = efs
                       /\ Leave("string_cleaner", "recompile_failed", analysis, NoExc, ecur)
                ELSE IF ~aligned
                  THEN /\ emeta' = m1 /\ efs' = efs
                       /\ Leave("string_cleaner", "align_failed", analysis, NoExc, ecur)
                ELSE IF ~exists
                  THEN /\ emeta' = m1 /\ efs' = efs
                       /\ Leave("string_cleaner", "no_output", analysis, NoExc, ecur)
                ELSE /\ emeta' = AddFields(m1, "string_cleaner", {"size_reduction"})
                     /\ efs' = files
                     /\ Leave("string_cleaner", "cleaned", analysis, NoExc, s.current)
  /\ UNCHANGED <<eopts, equeue>>

EnginesInit ==
  /\ PipelineIdle /\ RegistryIdle /\ DiscoveryIdle /\ OptimizerIdle /\ TreeIdle /\ PatchIdle /\ CommandIdle /\ PoolIdle /\ StringsIdle /\ DebugIdle
  /\ equeue \in SeqsUpTo(SoftEngines, MaxInvocations) \ {<<>>}
  /\ eopts \in SUBSET (UNION {EngineOptions(equeue[k]) : k \in DOMAIN equeue})
  /\ ek = 1 /\ epc = "idle"
  /\ ecur = InputStem /\ efs = {InputStem}
  /\ emeta = NoMeta /\ ewriters = NoMeta /\ elog = <<>>

enginesRest == <<vars, registryVars, discoveryVars, optimizerVars, treeVars, patchVars, commandVars, poolVars, stringsVars, debugVars>>

EnginesNext ==
  \/ \E m, x, r, p \in BOOLEAN : optimizer_run(m, x, r, p) /\ UNCHANGED enginesRest
  \/ \E m, x, d, r, p \in BOOLEAN :
       media_optimizer_run(m, x, d, r, p) /\ UNCHANGED enginesRest
  \/ \E a, c, o \in BOOLEAN : dtlx_run(a, c, o) /\ UNCHANGED enginesRest
  \/ \E m, d, r, z, x \in BOOLEAN, a \in Analyses :
       string_cleaner_run(m, d, a, r, z, x) /\ UNCHANGED enginesRest

SpecEngines == EnginesInit /\ [][EnginesNext]_allVars

\* every key of ctx.metadata has been assigned only by the engine it names
Owned == \A k \in DOMAIN ewriters : ewriters[k] \subseteq {k}

\* a step keeps every key of ctx.metadata and every field of its entry
Extended ==
  \A k \in DOMAIN emeta : k \in DOMAIN emeta' /\ emeta[k] \subseteq emeta'[k]

\* C32: every key of ctx.metadata is written only by the engine that owns
\* it, and an entry once written is only extended for the rest of the run:
\* no step replaces it by an entry that lacks one of its fields or removes it.
C32_OwnedAppendOnly == []Owned /\ [][Extended]_allVars

\* the finished runs of engine e
RunsOf(e) == {k \in DOMAIN elog : elog[k].engine = e}

\* the ways string_cleaner.run ends that the pointer must survive
CleanerKeeps ==
  {"disabled", "analysis_only", "decompile_failed", "recompile_failed", "align_failed"}

\* C38: a finished string_cleaner run has changed ctx.current_apk only if
\* removal is enabled, a key was unused, and recompile and align succeeded
\* and left an existing file; a run that was disabled, analysis-only, or whose
\* decompile, recompile or align failed left the pointer alone and did not raise.
C38_PointerOnFullSuccess ==
  \A k \in RunsOf("string_cleaner") :
    /\ elog[k].after # elog[k].before =>
         /\ "remove_unused_strings" \in eopts
         /\ elog[k].note = "some_unused"
         /\ elog[k].case = "cleaned"
         /\ elog[k].after \in efs
    /\ elog[k].case \in CleanerKeeps =>
         elog[k].after = elog[k].before /\ elog[k].exc = NoExc

\* one string_cleaner run failed to recompile and the next one advanced the
\* pointer to its cleaned APK
C38_Witness ==
  \E j, k \in RunsOf("string_cleaner") :
    /\ j < k
    /\ elog[j].case = "recompile_failed"
    /\ elog[k].case = "cleaned" /\ elog[k].after # elog[k].before

\* run k of the log failed softly: extract or repackage of optimizer or
\* media_optimizer, or the optimization of dtlx
SoftFailed(k) ==
  \/ /\ elog[k].engine \in {"optimizer", "media_optimizer"}
     /\ elog[k].case \in {"extract_failed", "repack_failed"}
  \/ elog[k].engine = "dtlx" /\ elog[k].case = "optimize_failed"

\* C39: an optimizer or media_optimizer run that failed to extract or
\* repackage, and a dtlx run whose optimization failed, returned without
\* raising and left ctx.current_apk as it was, and the engine after it was
\* handed that same artifact.
C39_SoftFailureKeepsArtifact ==
  \A k \in DOMAIN elog :
    SoftFailed(k) =>
      /\ elog[k].exc = NoExc
      /\ elog[k].after = elog[k].before
      /\ k < Len(elog) => elog[k + 1].before = elog[k].before
      /\ k = Len(elog) => ecur = elog[k].before

\* a repackage failed after the archive had been created, and another
\* engine ran after it
C39_Witness ==
  \E k \in DOMAIN elog :
    /\ elog[k].case = "repack_failed"
    /\ Derived(elog[k].before, "optimized") \in efs
    /\ k < Len(elog)

(* ------------- run_pipeline with two handlers, run to its end ---------- *)

\* the handler lists of these runs: every pair of handler behaviours
HandlerPairs == {<<a, b>> : a, b \in HandlerKinds}

\* the engine lists of these runs: none, one or two requested names
EngineLists ==
  {<<>>} \cup {<<a>> : a \in Names} \cup {<<a, b>> : a, b \in Names}

RunInit ==
  /\ RestIdle
  /\ inputKind \in {"file", "missing"}
  /\ inputSuffix = ".apk"
  /\ inputSize = 1
  /\ outputKind = "missing"
  /\ engines \in EngineLists
  /\ handlers \in HandlerPairs
  /\ pc = "validating"
  /\ created = {}
  /\ ctxMade = FALSE
  /\ fs = IF inputKind = "file" THEN {InputApk} ELSE {}
  /\ current_apk = ""
  /\ metadata = {}
  /\ engine_times = {}
  /\ perf_times = {}
  /\ i = 0
  /\ stage = "none"
  /\ h = 0
  /\ steps = 0
  /\ trace = <<>>
  /\ raised = NoRaise
  /\ failedAt = [idx |-> 0, exc |-> NoExc]
  /\ op = NoOp
  /\ lastOk = ""

\* every call of a handler or an engine returns or raises, and run_pipeline
\* goes on with its next statement
SpecRun == RunInit /\ [][Next]_vars /\ WF_vars(Next)

\* the state of the run
Phase ==
  IF pc = "validating" THEN "Validating"
  ELSE IF pc \in {"completed", "aborted"} THEN pc
  ELSE IF pc = "hooks" /\ stage = "pre_pipeline" THEN "Initialized"
  ELSE "Running"

\* the run has ended
Ended == pc \in {"completed", "aborted"}

\* one step of the run: the phases follow one another, the loop index moves
\* one name at a time, an engine runs only at a requested position, the run
\* completes only past the last name, and nothing happens once it has ended
PhaseStep ==
  /\ Phase = "Validating" => Phase' \in {"Validating", "Initialized", "aborted"}
  /\ Phase = "Initialized" => Phase' \in {"Initialized", "Running", "aborted"}
  /\ Phase = "Running" => Phase' \in {"Running", "completed", "aborted"}
  /\ i' \in {i, i + 1}
  /\ pc' = "engine" => i' \in 1..Len(engines)
  /\ pc' = "completed" => i' = Len(engines) + 1
  /\ Ended => UNCHANGED vars

\* C33: a run goes from Validating to Initialized to Running, engine after
\* engine in order, and ends Completed or Aborted; nothing runs after it has
\* ended; and when every invocation terminates the run does end.
C33_RunStateMachine == [][PhaseStep]_vars /\ <>Ended

\* a run over two registered engines has completed
C33_Witness ==
  /\ pc = "completed"
  /\ Len(engines) = 2
  /\ \A k \in 1..2 : \E j \in DOMAIN trace : trace[j].ev = "return" /\ trace[j].who = k

\* the stage labels dispatched to a handler so far
HookLabels == {trace[k].arg : k \in {j \in DOMAIN trace : trace[j].ev = "hook"}}

\* the labels a run may dispatch when the engine at position n fails
LabelsBefore(n) ==
  {"pre_pipeline", StageLabel("pre_engine", engines[n])}
    \cup UNION {{StageLabel("pre_engine", engines[k]), StageLabel("post_engine", engines[k])} :
                  k \in {j \in 1..(n - 1) : IsKnown(engines[j], Registered)}}

\* C34: once an engine has failed the run is aborted, no handler has been
\* invoked after that engine was called (neither for its post_engine stage
\* nor for post_pipeline), ctx.metadata has no performance entry, and the
\* labels dispatched are pre_pipeline, the pre/post pairs of the engines
\* before it and its own pre_engine.
C34_NoPostAfterFailure ==
  failedAt.idx # 0 =>
    /\ pc = "aborted"
    /\ "performance" \notin metadata
    /\ "post_pipeline" \notin HookLabels
    /\ HookLabels \subseteq LabelsBefore(failedAt.idx)
    /\ \A k \in DOMAIN trace :
         trace[k].ev = "call" /\ trace[k].who = failedAt.idx =>
           \A j \in DOMAIN trace : j > k => trace[j].ev \notin {"hook", "hook_error"}

\* the second engine failed after the first one's post_engine stage had been
\* dispatched to the handlers
C34_Witness ==
  /\ failedAt.idx = 2
  /\ handlers # <<>>
  /\ StageLabel("post_engine", engines[1]) \in HookLabels
  /\ StageLabel("pre_engine", engines[2]) \in HookLabels

\* event k of the trace is handler n being invoked with label l
IsHook(k, l, n) ==
  /\ k \in DOMAIN trace
  /\ trace[k].ev = "hook" /\ trace[k].arg = l /\ trace[k].who = n

\* event k of the trace is the logged failure of handler n for label l
IsHookError(k, l, n) ==
  /\ k \in DOMAIN trace
  /\ trace[k].ev = "hook_error" /\ trace[k].arg = l /\ trace[k].who = n

\* the event that follows the invocation at k and, if the handler raised a
\* caught error, its log line
AfterHook(k) ==
  IF IsHookError(k + 1, trace[k].arg, trace[k].who) THEN k + 2 ELSE k + 1

\* the dispatch of the invocation at k is still under way, or an exception
\* dispatch_hooks does not catch has left it
Unfinished(k) ==
  /\ AfterHook(k) = Len(trace) + 1
  /\ \/ pc = "hooks" /\ h = trace[k].who + 1
     \/ pc = "aborted" /\ raised.origin = "hook" /\ raised.type \notin CaughtFamily

\* the labels of the pre_engine stages
PreEngineLabels == {StageLabel("pre_engine", n) : n \in Names}

\* C35: every dispatch invokes the handlers in list order, each once and with
\* the same label: an invocation is of the first handler of a new dispatch or
\* follows the invocation of the handler before it, and it is followed by the
\* invocation of the next handler also when it raised a caught error; after
\* the last handler of a pre_engine stage the engine is called.  The only
\* dispatch cut short is one that an uncaught exception has left.
C35_EveryHandlerOnce ==
  \A k \in DOMAIN trace :
    trace[k].ev = "hook" =>
      LET l == trace[k].arg
          n == trace[k].who
      IN /\ n \in 1..Len(handlers)
         /\ IF n = 1
              THEN ~(k > 1 /\ trace[k - 1].ev \in {"hook", "hook_error"} /\ trace[k - 1].arg = l)
              ELSE \/ IsHook(k - 1, l, n - 1)
                   \/ IsHookError(k - 1, l, n - 1) /\ IsHook(k - 2, l, n - 1)
         /\ IF n < Len(handlers)
              THEN IsHook(AfterHook(k), l, n + 1) \/ Unfinished(k)
              ELSE \/ AfterHook(k) \in DOMAIN trace
                      /\ ~(trace[AfterHook(k)].ev \in {"hook", "hook_error"}
                           /\ trace[AfterHook(k)].arg = l)
                      /\ l \in PreEngineLabels => trace[AfterHook(k)].ev = "call"
                   \/ AfterHook(k) = Len(trace) + 1

\* the first handler raised a caught error at a pre_engine stage, the second
\* handler was invoked all the same, and the engine ran and returned
C35_Witness ==
  \E k \in DOMAIN trace :
    /\ trace[k].arg \in PreEngineLabels
    /\ IsHook(k, trace[k].arg, 1)
    /\ IsHookError(k + 1, trace[k].arg, 1)
    /\ IsHook(k + 2, trace[k].arg, 2)
    /\ \E j \in DOMAIN trace : j > k /\ trace[j].ev = "return"

\* the match a step of the inner loop has just looked at
Visited == CHOOSE m \in matches : m \notin matches'

\* a step of debloat_apk's inner loop: a directory goes with its whole
\* subtree and counts once, a file goes alone and counts once, a match that
\* is no longer there changes nothing, and nothing else is removed
DebloatVisit ==
  (top = "debloat_apk" /\ trun /\ tlisted /\ tlisted' /\ matches' # matches) =>
    LET m == Visited
    IN /\ is_dir(tree, m) =>
            /\ DOMAIN tree' = {q \in DOMAIN tree : q # m /\ ~Under(q, m)}
            /\ removed_count' = removed_count + 1
       /\ is_file(tree, m) =>
            /\ DOMAIN tree' = (DOMAIN tree) \ {m}
            /\ removed_count' = removed_count + 1
       /\ m \notin DOMAIN tree =>
            /\ tree' = tree
            /\ removed_count' = removed_count
            /\ trun' /\ top' = top
       /\ \A q \in DOMAIN tree' : q \in DOMAIN tree /\ tree'[q] = tree[q]

\* C36: in debloat_apk a matched directory is removed with its whole subtree
\* and counted as one entry; a match that lay under it is, when its turn
\* comes, neither removed nor counted and the loop goes on without an error.
C36_DirectoryPruning == [][DebloatVisit]_allVars

\* a debloat run with the pattern * removed a directory holding at least two
\* entries in one step, counted it once, looked at the entries that had been
\* under it, and returned
C36_Witness ==
  /\ Returned("debloat_apk")
  /\ plist = << <<"*">> >>
  /\ Cardinality(DOMAIN treeStart) >= 3
  /\ tree = EmptyTree
  /\ removed_count = 1

\* C37: removal changes only the declarations of unused keys: a key the
\* analysis found used (or reserved) that a file declared is still declared
\* by it, every line left in a file is a line it had, and a file that
\* declares no unused key is left as it was.
C37_OnlyUnusedRemoved ==
  \A p \in StringsPaths :
    /\ \A k \in DeclaredIn(sfiles0, p) \ UnusedOf(usage1) : k \in DeclaredIn(sfiles, p)
    /\ \A n \in DOMAIN sfiles[p] : \E j \in DOMAIN sfiles0[p] : sfiles[p][n] = sfiles0[p][j]
    /\ DeclaredIn(sfiles0, p) \cap UnusedOf(usage1) = {} => sfiles[p] = sfiles0[p]

(* ============ _remove_debug_symbols (rvp/engines/optimizer.py) ========= *)

\* path components in which dir_patterns and file_patterns find "debug" or
\* "proguard", components that begin with "test", and file names that end
\* in .map or .log or are mapping.txt
DebugNames == {"debug_info"}
TestNames == {"tests"}
MapNames == {"source.map"}

\* dir_regex.match(d_path): the patterns are matched from the start of the
\* whole path and end in .* or need no end, so one component decides;
\* "/test" needs a separator before it
DirMatches(q) ==
  \E j \in DOMAIN q : q[j] \in DebugNames \/ (j > 1 /\ q[j] \in TestNames)

\* file_regex.match(f_path)
FileMatches(q) ==
  \/ q[Len(q)] \in MapNames
  \/ \E j \in DOMAIN q : q[j] \in DebugNames \/ (j > 1 /\ q[j] \in TestNames)

\* the trees of the walk: extract_dir exists and every entry lies in a
\* directory of the tree
WalkTrees ==
  {t \in SUBSET (WalkDirs \cup WalkFiles) :
     /\ ExtractDir \in t
     /\ \A q \in t : Len(q) > 1 => Parent(q) \in t}

\* the files of t under the directory d
FilesUnder(t, d) == {q \in t \cap WalkFiles : Under(q, d)}

\* os.walk yields the next directory: its sub-directories and files are listed
WalkNext(r) ==
  /\ wpc = "walk" /\ r \in wstack
  /\ wroot' = r
  /\ wdirs' = {q \in wtree \cap WalkDirs : Len(q) > 1 /\ Parent(q) = r}
  /\ wfiles' = {q \in wtree \cap WalkFiles : Parent(q) = r}
  /\ wkept' = {}
  /\ wstack' = wstack \ {r}
  /\ wvisited' = wvisited \cup {r}
  /\ wpc' = "dirs"
  /\ UNCHANGED <<wtree0, wtree, locked, wcount, wdeleted>>

\* what the try block adds to removed_count for a directory with the files
\* `under`, of which it deleted `done` before an unlink raised (failed) or
\* not: `removed_count += count` is reached only when nothing raised
PruneCount(under, done, failed) == IF failed THEN 0 ELSE Cardinality(under)

\* one iteration of the loop over dirs: a matching directory is emptied and
\* removed and leaves `dirs`; when an unlink raises, the files deleted
\* before it (done) are gone and the directory stays in `dirs`
PruneDir(d, done) ==
  /\ wpc = "dirs" /\ d \in wdirs
  /\ wdirs' = wdirs \ {d}
  /\ LET under == FilesUnder(wtree, d)
         failed == under \cap locked # {}
     IN IF ~DirMatches(d)
          THEN /\ done = {}
               /\ wkept' = wkept \cup {d}
               /\ UNCHANGED <<wtree, wcount, wdeleted>>
        ELSE IF failed
          THEN /\ done \subseteq under \ locked
               /\ wtree' = wtree \ done
               /\ wdeleted' = wdeleted \cup done
               /\ wcount' = wcount + PruneCount(under, done, TRUE)
               /\ wkept' = wkept \cup {d}
          ELSE /\ done = under
               /\ wtree' = {q \in wtree : q # d /\ ~Under(q, d)}
               /\ wdeleted' = wdeleted \cup under
               /\ wcount' = wcount + PruneCount(under, done, FALSE)
               /\ wkept' = wkept
  /\ UNCHANGED <<wtree0, locked, wpc, wstack, wroot, wfiles, wvisited>>

\* the loop over dirs is over
DirsDone ==
  /\ wpc = "dirs" /\ wdirs = {}
  /\ wpc' = "files"
  /\ UNCHANGED <<wtree0, wtree, locked, wstack, wroot, wdirs, wkept, wfiles,
                 wcount, wdeleted, wvisited>>

\* one iteration of the loop over files
RemoveFile(f) ==
  /\ wpc = "files" /\ f \in wfiles
  /\ wfiles' = wfiles \ {f}
  /\ IF FileMatches(f) /\ f \notin locked
       THEN /\ wtree' = wtree \ {f}
            /\ wdeleted' = wdeleted \cup {f}
            /\ wcount' = wcount + 1
       ELSE UNCHANGED <<wtree, wdeleted, wcount>>
  /\ UNCHANGED <<wtree0, locked, wpc, wstack, wroot, wdirs, wkept, wvisited>>

\* the loop over files is over: os.walk goes on with what is left in dirs,
\* or the function returns removed_count
FilesDone ==
  /\ wpc = "files" /\ wfiles = {}
  /\ wstack' = wstack \cup wkept
  /\ wkept' = {}
  /\ wpc' = IF wstack \cup wkept = {} THEN "returned" ELSE "walk"
  /\ UNCHANGED <<wtree0, wtree, locked, wroot, wdirs, wfiles, wcount, wdeleted,
                 wvisited>>

DebugInit ==
  /\ PipelineIdle /\ RegistryIdle /\ DiscoveryIdle /\ OptimizerIdle /\ TreeIdle /\ PatchIdle /\ CommandIdle /\ PoolIdle /\ StringsIdle /\ EnginesIdle
  /\ wtree0 \in WalkTrees
  /\ wtree = wtree0
  /\ locked \in {l \in SUBSET (wtree0 \cap WalkFiles) : Cardinality(l) <= MaxLocked}
  /\ wpc = "walk" /\ wstack = {ExtractDir} /\ wroot = <<>>
  /\ wdirs = {} /\ wkept = {} /\ wfiles = {}
  /\ wcount = 0 /\ wdeleted = {} /\ wvisited = {}

debugRest == <<vars, registryVars, discoveryVars, optimizerVars, treeVars, patchVars, commandVars, poolVars, stringsVars, enginesVars>>

DebugNext ==
  \/ \E r \in wstack : WalkNext(r) /\ UNCHANGED debugRest
  \/ \E d \in wdirs, done \in SUBSET WalkFiles : PruneDir(d, done) /\ UNCHANGED debugRest
  \/ DirsDone /\ UNCHANGED debugRest
  \/ \E f \in wfiles : RemoveFile(f) /\ UNCHANGED debugRest
  \/ FilesDone /\ UNCHANGED debugRest

SpecDebug == DebugInit /\ [][DebugNext]_allVars

\* the files the walk is to delete: those matching a file pattern or lying
\* under a directory that matches a directory pattern
DebugTargets ==
  {q \in wtree0 \cap WalkFiles :
     FileMatches(q) \/ \E d \in wtree0 \cap WalkDirs : DirMatches(d) /\ Under(q, d)}

\* C40: when _remove_debug_symbols has returned, no file that matches a file
\* pattern or lies under a matching directory is left unless its deletion
\* raised, every other file is still there, no directory that was pruned has
\* been walked into, and the count returned is the number of files deleted,
\* also when a deletion failed part-way.
C40_PruneAndCount ==
  wpc = "returned" =>
    /\ wtree \cap DebugTargets \subseteq locked
    /\ (wtree0 \cap WalkFiles) \ DebugTargets \subseteq wtree
    /\ \A d \in wvisited : d \in wtree
    /\ wcount = Cardinality(wdeleted)

====
